---- MODULE Spec2Model ----
(***************************************************************************)
(* Nomad IF (nomad_if.py): the tick engine, power model, weather/season     *)
(* generator, router and the Game operations the command loop invokes.      *)
(*                                                                           *)
(* Numbers.  The program computes on Python floats.  Every real-valued      *)
(* quantity (percent, gallons, dollars, amps, watts, miles, hours) is kept   *)
(* here in thousandths as an integer (fixed point, unit 1/Milli); a product  *)
(* of two such values is divided by Milli, a quotient multiplied by it.      *)
(* Minutes, ticks, XP, level and the route cursor are plain integers.        *)
(*                                                                           *)
(* Randomness.  seeded_rng mixes the hashes of its parts with a 32-bit LCG   *)
(* and seeds a Mersenne Twister.  The model keeps the structure (xor with    *)
(* the part's hash, then one LCG step, per part; successive draws from the   *)
(* seeded generator) on 16-bit words.  Python salts the hash of a str per    *)
(* process (PYTHONHASHSEED): hash_str takes that salt from the variable      *)
(* hashsalt, which is chosen when the process starts.                        *)
(***************************************************************************)
EXTENDS Integers, Sequences, FiniteSets, TLC

VARIABLES
    game,       \* the Game object (a record of its fields)
    world,      \* the World object: node order and nodes, after construction
    hashsalt,   \* this process's str-hash salt
    out,        \* the command last dispatched and what it reported
    steps,      \* commands this session still dispatches
    probe       \* inputs and results of the pure functions under test

vars == <<game, world, hashsalt, out, steps, probe>>

\* ---------------------------------------------------------------- bounds
MaxSteps == 2
MaxSalt == 1
MaxProbeDay == 3

\* ------------------------------------------------------------- constants
Milli == 10 * 10 * 10
TURN_MINUTES == 15
DAY_MINUTES == 1440
SYSTEM_VOLTAGE == 12
REF_ELEV_FT == 4000
Inf == 1000000
Word == 65536

\* A local assignment: With(e, LAMBDA v : body) computes e, then the body
\* with v standing for that value.
With(e, Op(_)) == CHOOSE res \in { Op(val) : val \in {e} } : TRUE

Max(a, b) == IF a >= b THEN a ELSE b
Min(a, b) == IF a <= b THEN a ELSE b

clamp_floor_only(v, lo, hi) == Max(lo, v)

clamp(v, lo, hi) == Max(lo, Min(hi, v))

\* float('nan'), which cash and fuel_gal can come to hold, and float
\* arithmetic on them: a comparison with nan is False, a sum or difference
\* with nan is nan, and max(0, nan) is 0.
NaN == 0 - Inf
flt_lt(a, b) == a # NaN /\ b # NaN /\ a < b
flt_add(a, b) == IF a = NaN \/ b = NaN THEN NaN ELSE a + b
flt_sub(a, b) == IF a = NaN \/ b = NaN THEN NaN ELSE a - b
flt_max0(x) == IF x = NaN THEN 0 ELSE Max(0, x)

\* Python round(x, 1) on a value in thousandths: to the nearest tenth.
round1(v) == ((v + 50) \div 100) * 100

\* Python int(round(x)) on a value in thousandths, as a plain integer.
round0(v) == (v + 500) \div 1000

\* Python int(x) for x >= 0 in thousandths, as a plain integer.
trunc(v) == v \div 1000

\* math.ceil(a / b) for b > 0.
ceildiv(a, b) == (a + b - 1) \div b

\* a * b / Milli for fixed-point operands.
mul(a, b) == (a * b) \div Milli

is_daylight(total_minutes) ==
    LET m == total_minutes % DAY_MINUTES
    IN 6 * 60 <= m /\ m < 20 * 60

\* sin(pi * t) on t = x / L, by Bhaskara's rational form
\* 16 t (1 - t) / (5 - 4 t (1 - t)), in thousandths.
sin_pi(x, L) ==
    LET p == x * (L - x)
    IN (1600 * p) \div ((5 * L * L - 4 * p) \div 10)

daylight_sine(total_minutes) ==
    LET m == total_minutes % DAY_MINUTES
    IN IF m < 360 \/ m > 1200 THEN 0
       ELSE Max(0, sin_pi(m - 360, 1200 - 360))

\* ------------------------------------------------------------ seeded rng
RECURSIVE xor(_, _, _)
xor(a, b, n) ==
    IF n = 0 THEN 0
    ELSE (((a % 2) + (b % 2)) % 2) + 2 * xor(a \div 2, b \div 2, n - 1)

lcg(seed) == (seed * 25173 + 13849) % Word

\* Every str the program hashes, as the integer its characters stand for.
StrCode(s) ==
    CASE s = "moab" -> 1201
      [] s = "arches" -> 2417
      [] s = "zion" -> 3631
      [] s = "bryce" -> 4409
      [] s = "swell" -> 5813
      [] s = "signal" -> 6007
      [] s = "search" -> 6211
      [] s = "gig" -> 6421
      [] s = "photo" -> 7013
      [] s = "dev" -> 7229
      [] s = "mechanic" -> 7433
      [] s = "guide" -> 7639
      [] s = "artist" -> 7841
      [] s = "stealth" -> 8039
      [] s = "paid" -> 8243
      [] s = "dispersed" -> 8447
      [] OTHER -> 9001

\* hash(p) & mask for a str p: salted per process.
hash_str(s) == (StrCode(s) * (2 * hashsalt + 1) + 7919 * hashsalt) % Word

\* hash(p) & mask for an int p >= 0.
hash_int(n) == n % Word

RECURSIVE seed_fold(_, _, _)
seed_fold(seed, parts, i) ==
    IF i > Len(parts) THEN seed
    ELSE seed_fold(lcg(xor(seed, parts[i], 16)), parts, i + 1)

\* parts: the masked hashes of the arguments, in order.
seeded_rng(parts) == seed_fold(43981, parts, 1)

\* The k-th draw (k >= 1) of rng.random() from a generator seeded with seed,
\* in thousandths of the unit interval.
RECURSIVE rng_state(_, _)
rng_state(seed, k) == IF k = 0 THEN seed ELSE rng_state(lcg(seed), k - 1)

rng_random(seed, k) == (rng_state(seed, k) * Milli) \div Word

\* rng.uniform(a, b) on the k-th draw.
rng_uniform(seed, k, a, b) == a + mul(b - a, rng_random(seed, k))

\* rng.randint(a, b) on the k-th draw.
rng_randint(seed, k, a, b) == a + (rng_random(seed, k) * (b - a + 1)) \div Milli

\* --------------------------------------------------------------- seasons
SEASONS == <<
    [name |-> "spring", days |-> 90,  uv_peak |-> 7500,  temp_base |-> 60000,
     diurnal_amp |-> 14000, humidity_base |-> 35000],
    [name |-> "summer", days |-> 120, uv_peak |-> 10500, temp_base |-> 88000,
     diurnal_amp |-> 18000, humidity_base |-> 25000],
    [name |-> "autumn", days |-> 90,  uv_peak |-> 6000,  temp_base |-> 65000,
     diurnal_amp |-> 12000, humidity_base |-> 30000],
    [name |-> "winter", days |-> 60,  uv_peak |-> 3500,  temp_base |-> 38000,
     diurnal_amp |-> 10000, humidity_base |-> 35000] >>

RECURSIVE sum_days(_, _)
sum_days(tbl, i) == IF i = 0 THEN 0 ELSE tbl[i].days + sum_days(tbl, i - 1)

RECURSIVE season_walk_strict(_, _, _, _)
season_walk_strict(tbl, day_index, i, acc) ==
    IF i > Len(tbl) THEN 0
    ELSE IF day_index < acc + tbl[i].days THEN i
    ELSE season_walk_strict(tbl, day_index, i + 1, acc + tbl[i].days)

\* The walk of get_season: index of the first season whose cumulative span
\* covers day_index; 0 when the loop falls through to the fallback.
RECURSIVE season_walk(_, _, _, _)
season_walk(tbl, day_index, i, acc) ==
    IF i > Len(tbl) THEN 0
    ELSE IF day_index <= acc + tbl[i].days THEN i
    ELSE season_walk(tbl, day_index, i + 1, acc + tbl[i].days)

get_season(total_minutes) ==
    With(season_walk(SEASONS,
                     ((total_minutes \div DAY_MINUTES) % sum_days(SEASONS, Len(SEASONS))) + 1,
                     1, 0), LAMBDA i :
      IF i = 0 THEN SEASONS[Len(SEASONS)] ELSE SEASONS[i])

\* --------------------------------------------------------------- weather
LAPSE_F_PER_KFT == 0 - 3500

\* wind is rng.choices(['low','medium','high'], weights=[4,3,2]) on the first
\* draw; humidity takes the second, monsoon and flood_watch the next ones.
weather_day_by_tick(total_minutes) == (total_minutes \div TURN_MINUTES) + 1

\* day of derive_weather: the in-game day that keys the generator.
weather_day(total_minutes) == (total_minutes \div DAY_MINUTES) + 1

derive_weather(node, total_minutes) ==
    With(seeded_rng(<<hash_str(node.id), hash_int(weather_day(total_minutes))>>),
         LAMBDA rng :
    With(get_season(total_minutes), LAMBDA meta :
    With(daylight_sine(total_minutes), LAMBDA diel :
    With(round1(meta.temp_base
                + ((node.elevation_ft - REF_ELEV_FT) * LAPSE_F_PER_KFT) \div 1000
                + mul(meta.diurnal_amp, 2 * diel - Milli)), LAMBDA temp :
      [heat |-> IF temp >= 85 * Milli THEN "hot"
                ELSE IF temp >= 55 * Milli THEN "mild" ELSE "cold",
       wind |-> IF rng_random(rng, 1) * 9 < 4 * Milli THEN "low"
                ELSE IF rng_random(rng, 1) * 9 < 7 * Milli THEN "medium" ELSE "high",
       monsoon |-> node.monsoon_rule /\ rng_random(rng, 3) < 200,
       flood_watch |-> (node.flash_flood_rule \/ node.monsoon_rule)
                       /\ rng_random(rng, IF node.monsoon_rule THEN 4 ELSE 3) < 120,
       temp_f |-> temp,
       humidity |-> round1(clamp(meta.humidity_base
                                 + rng_uniform(rng, 2, 0 - 5 * Milli, 5 * Milli)
                                 - 8 * diel, 5 * Milli, 95 * Milli)),
       uv |-> round1(mul(meta.uv_peak, diel)),
       season |-> meta.name]))))

weather_speed_mod(w) ==
    LET m1 == IF w.heat = "hot" THEN mul(Milli, 950) ELSE Milli
        m2 == IF w.wind = "high" THEN mul(m1, 920) ELSE m1
    IN IF w.flood_watch THEN mul(m2, 900) ELSE m2

\* ---- Time windows ----
current_time_windows(total_minutes, node) ==
    With(total_minutes % DAY_MINUTES, LAMBDA m :
    With(derive_weather(node, total_minutes), LAMBDA w :
       (IF 330 <= m /\ m <= 450 THEN {"sunrise", "golden_hour"} ELSE {})
       \cup (IF 360 <= m /\ m <= 480 THEN {"golden_hour"} ELSE {})
       \cup (IF 420 <= m /\ m <= 660 THEN {"morning", "daylight"} ELSE {})
       \cup (IF 660 < m /\ m < 1110 THEN {"daylight"} ELSE {})
       \cup (IF 1110 <= m /\ m <= 1200 THEN {"golden_hour", "daylight"} ELSE {})
       \cup (IF ~(360 <= m /\ m < 1200)
             THEN {"night"} \cup (IF ~w.monsoon /\ w.wind # "high" /\ ~w.flood_watch
                                  THEN {"night_clear"} ELSE {})
             ELSE {})))

window_multiplier(tag, windows) ==
    IF tag \notin windows THEN 600
    ELSE CASE tag = "sunrise" -> 1600
           [] tag = "golden_hour" -> 1500
           [] tag = "morning" -> 1150
           [] tag = "daylight" -> 1000
           [] tag = "night" -> 900
           [] tag = "night_clear" -> 1400
           [] OTHER -> 1000

\* ---------------------------------------------------------------- travel
BASE_SPEED(road) ==
    CASE road = "interstate" -> 65000
      [] road = "highway" -> 55000
      [] road = "scenic" -> 45000
      [] road = "mixed" -> 40000
      [] road = "gravel" -> 30000
      [] road = "trail" -> 10000
      [] OTHER -> 40000

GRADE_MOD(grade) ==
    CASE grade = "flat" -> 1000
      [] grade = "light" -> 950
      [] grade = "moderate" -> 850
      [] grade = "mixed" -> 900
      [] grade = "steep" -> 700
      [] OTHER -> 900

\* The speed of edge_drive_turns, in thousandths of a mile per hour.
edge_speed(conn, w) ==
    Max(15 * Milli, mul(mul(BASE_SPEED(conn.road), GRADE_MOD(conn.grade)),
                        weather_speed_mod(w)))

\* turns of edge_drive_turns: max(1, ceil(hours * 60 / TURN_MINUTES)).
edge_drive_turns(wld, start_node_id, conn, total_minutes) ==
    LET w == derive_weather(wld.nodes[start_node_id], total_minutes)
    IN Max(1, ceildiv(conn.miles * (60 \div TURN_MINUTES), edge_speed(conn, w)))

\* The unvisited node of least finite distance, first in dict order on ties;
\* "" when there is none (cur is None).
RECURSIVE pick_cur(_, _, _, _, _, _)
pick_cur(order, dist, visited, i, cur, cur_dist) ==
    IF i > Len(order) THEN cur
    ELSE LET nid == order[i]
         IN IF nid \notin visited /\ dist[nid] < cur_dist
            THEN pick_cur(order, dist, visited, i + 1, nid, dist[nid])
            ELSE pick_cur(order, dist, visited, i + 1, cur, cur_dist)

relax_first_found(nd, old) == old = Inf

\* if nd < dist[c['to']]: the test that lets an edge improve a distance.
relax_better(nd, old) == nd < old

RECURSIVE relax_snapshot(_, _, _, _, _)
relax_snapshot(wld, cur, total_minutes, i, st) ==
    IF i > Len(wld.nodes[cur].connections) \/ st.err THEN st
    ELSE With(wld.nodes[cur].connections[i], LAMBDA c :
         With(st.dist[cur] + edge_drive_turns(wld, cur, c, total_minutes), LAMBDA nd :
           IF c.to \notin DOMAIN st.dist
           THEN [st EXCEPT !.err = TRUE]
           ELSE relax_snapshot(wld, cur, total_minutes, i + 1,
                      IF relax_better(nd, st.dist[c.to])
                      THEN [st EXCEPT !.dist[c.to] = nd,
                                      !.prev[c.to] = <<[frm |-> cur, conn |-> c]>>]
                      ELSE st)))

\* The relaxation loop over the connections of cur, in list order.  st.err
\* is set when dist[c['to']] is looked up for an id that is no node.
RECURSIVE relax(_, _, _, _, _)
relax(wld, cur, total_minutes, i, st) ==
    IF i > Len(wld.nodes[cur].connections) \/ st.err THEN st
    ELSE With(wld.nodes[cur].connections[i], LAMBDA c :
         With(st.dist[cur]
              + edge_drive_turns(wld, cur, c, total_minutes + st.dist[cur] * TURN_MINUTES),
              LAMBDA nd :
           IF c.to \notin DOMAIN st.dist
           THEN [st EXCEPT !.err = TRUE]
           ELSE relax(wld, cur, total_minutes, i + 1,
                      IF relax_better(nd, st.dist[c.to])
                      THEN [st EXCEPT !.dist[c.to] = nd,
                                      !.prev[c.to] = <<[frm |-> cur, conn |-> c]>>]
                      ELSE st)))

RECURSIVE dijkstra_loop(_, _, _, _, _)
dijkstra_loop(wld, dst, total_minutes, st, visited) ==
    With(pick_cur(wld.order, st.dist, visited, 1, "", Inf), LAMBDA cur :
      IF cur = "" \/ cur = dst \/ st.err THEN st
      ELSE dijkstra_loop(wld, dst, total_minutes,
                         relax(wld, cur, total_minutes, 1, st),
                         visited \cup {cur}))

\* The walk back along prev from nid to src; stops at a node without prev.
RECURSIVE build_path(_, _, _, _)
build_path(prev, src, nid, path) ==
    IF nid = src \/ prev[nid] = <<>> THEN path
    ELSE LET p == prev[nid][1]
         IN build_path(prev, src, p.frm,
                       <<[frm |-> p.frm, to |-> nid, conn |-> p.conn]>> \o path)

\* visited.add(cur), mis-written so that the node is not remembered.
visit_forgetful(visited, cur) == visited

\* visited.add(cur): the node picked is settled and not picked again.
visit(visited, cur) == visited \cup {cur}

\* What dijkstra_route returns once its loop has left st behind: status "ok"
\* with path and total, "none" for (None, None), "raise" when the lookup of
\* an unknown node id raised KeyError.
dijkstra_return(st, src, dst) ==
    IF st.err THEN [status |-> "raise", path |-> <<>>, total |-> 0]
    ELSE IF st.dist[dst] = Inf THEN [status |-> "none", path |-> <<>>, total |-> 0]
    ELSE [status |-> "ok", path |-> build_path(st.prev, src, dst, <<>>),
          total |-> st.dist[dst]]

dijkstra_route(wld, src, dst, total_minutes) ==
    With(dijkstra_loop(wld, dst, total_minutes,
                       [dist |-> [n \in DOMAIN wld.nodes |-> IF n = src THEN 0 ELSE Inf],
                        prev |-> [n \in DOMAIN wld.nodes |-> <<>>],
                        err |-> FALSE],
                       {}), LAMBDA st : dijkstra_return(st, src, dst))

\* ----------------------------------------------------------------- world
\* World._ensure_bidirectional: nodes in dict order (i), each node's
\* connection list by index (j) as the list stands when the index gets there.
RECURSIVE ensure_bidirectional_always(_, _, _, _)
ensure_bidirectional_always(nodes, order, i, j) ==
    IF i > Len(order) THEN nodes
    ELSE LET nid == order[i]
             conns == nodes[nid].connections
         IN IF j > Len(conns) THEN ensure_bidirectional_always(nodes, order, i + 1, 1)
            ELSE LET c == conns[j]
                     mirrored == c.to \in DOMAIN nodes
                                 /\ \E k \in 1..Len(nodes[c.to].connections) :
                                       nodes[c.to].connections[k] = [c EXCEPT !.to = nid]
                 IN IF c.to \notin DOMAIN nodes \/ mirrored
                    THEN ensure_bidirectional_always(nodes, order, i, j + 1)
                    ELSE ensure_bidirectional_always(
                           [nodes EXCEPT ![c.to].connections =
                                Append(@, [c EXCEPT !.to = nid])],
                           order, i, j + 1)

RECURSIVE ensure_bidirectional(_, _, _, _)
ensure_bidirectional(nodes, order, i, j) ==
    IF i > Len(order) THEN nodes
    ELSE LET nid == order[i]
             conns == nodes[nid].connections
         IN IF j > Len(conns) THEN ensure_bidirectional(nodes, order, i + 1, 1)
            ELSE LET c == conns[j]
                     other == c.to
                     back == other \in DOMAIN nodes
                             /\ \E k \in 1..Len(nodes[other].connections) :
                                   nodes[other].connections[k].to = nid
                 IN IF other \notin DOMAIN nodes \/ back
                    THEN ensure_bidirectional(nodes, order, i, j + 1)
                    ELSE ensure_bidirectional(
                           [nodes EXCEPT ![other].connections =
                                Append(@, [c EXCEPT !.to = nid])],
                           order, i, j + 1)

\* World.__init__ on a list of node records given in file order.
World(order, nodes) ==
    [order |-> order, nodes |-> ensure_bidirectional(nodes, order, 1, 1)]

\* World.find_node on a lower-cased key: the id itself, else no match.
find_node(wld, key) == IF key \in DOMAIN wld.nodes THEN key ELSE ""

Conn(to, road, grade, miles) ==
    [to |-> to, road |-> road, grade |-> grade, miles |-> miles * Milli]

\* The world file of the sessions explored: a hub, a park next door, a far
\* park beyond the starting range, a remote camp and a place no road reaches.
UtahNodes ==
    [moab |-> [id |-> "moab", biome |-> {"desert", "town"}, elevation_ft |-> 4000,
               solar |-> "good", monsoon_rule |-> TRUE, flash_flood_rule |-> FALSE,
               pet_adoption |-> TRUE, pet_rules |-> "relaxed",
               connections |-> << Conn("arches", "scenic", "light", 5),
                                  Conn("swell", "highway", "flat", 60),
                                  Conn("zion", "interstate", "mixed", 320) >>],
     arches |-> [id |-> "arches", biome |-> {"arches", "desert"}, elevation_ft |-> 5000,
               solar |-> "excellent", monsoon_rule |-> FALSE, flash_flood_rule |-> TRUE,
               pet_adoption |-> FALSE, pet_rules |-> "strict",
               connections |-> << Conn("swell", "gravel", "steep", 40) >>],
     swell |-> [id |-> "swell", biome |-> {"swell", "desert"}, elevation_ft |-> 6000,
               solar |-> "fair", monsoon_rule |-> FALSE, flash_flood_rule |-> TRUE,
               pet_adoption |-> FALSE, pet_rules |-> "relaxed",
               connections |-> << Conn("moab", "highway", "flat", 60) >>],
     zion |-> [id |-> "zion", biome |-> {"canyon"}, elevation_ft |-> 4000,
               solar |-> "poor", monsoon_rule |-> TRUE, flash_flood_rule |-> TRUE,
               pet_adoption |-> FALSE, pet_rules |-> "strict",
               connections |-> << >>],
     bryce |-> [id |-> "bryce", biome |-> {"alpine"}, elevation_ft |-> 8000,
               solar |-> "good", monsoon_rule |-> FALSE, flash_flood_rule |-> FALSE,
               pet_adoption |-> FALSE, pet_rules |-> "relaxed",
               connections |-> << >>]]

\* ---------------------------------------------------------- archetypes
VEHICLES(key) ==
    CASE key = "truck_camper" ->
           [base_water_cap |-> 30000, base_food_cap |-> 14000,
            max_water_cap |-> 50000, max_food_cap |-> 24000,
            house_cap_factor |-> 1000, solar_cap_watts |-> 600000,
            wind_cap_watts |-> 300000, ev_range |-> 220000, mpg |-> 14000,
            fuel_tank_gal |-> 30000]
      [] key = "hatchback" ->
           [base_water_cap |-> 2000, base_food_cap |-> 2000,
            max_water_cap |-> 10000, max_food_cap |-> 4000,
            house_cap_factor |-> 500, solar_cap_watts |-> 200000,
            wind_cap_watts |-> 150000, ev_range |-> 250000, mpg |-> 30000,
            fuel_tank_gal |-> 10000]
      [] OTHER ->
           [base_water_cap |-> 20000, base_food_cap |-> 7000,
            max_water_cap |-> 40000, max_food_cap |-> 12000,
            house_cap_factor |-> 500, solar_cap_watts |-> 400000,
            wind_cap_watts |-> 300000, ev_range |-> 250000, mpg |-> 18000,
            fuel_tank_gal |-> 20000]

\* job_perks.get(perk, default) over the jobs table.
JOBS(job) ==
    CASE job = "photographer" ->
           [epic_bonus |-> 200, shop_discount |-> 0, hike_energy_mult |-> 1000,
            remote_camp_income |-> 0]
      [] job = "remote_dev" ->
           [epic_bonus |-> 0, shop_discount |-> 0, hike_energy_mult |-> 1000,
            remote_camp_income |-> 40000]
      [] job = "mechanic" ->
           [epic_bonus |-> 0, shop_discount |-> 100, hike_energy_mult |-> 1000,
            remote_camp_income |-> 0]
      [] job = "trail_guide" ->
           [epic_bonus |-> 0, shop_discount |-> 0, hike_energy_mult |-> 800,
            remote_camp_income |-> 0]
      [] OTHER ->
           [epic_bonus |-> 300, shop_discount |-> 0, hike_energy_mult |-> 1000,
            remote_camp_income |-> 0]

\* ------------------------------------------------------------ XP / level
xp_needed_for_level(level) ==
    IF level <= 1 THEN 0
    ELSE CASE level = 2 -> 100 [] level = 3 -> 255 [] level = 4 -> 441
           [] level = 5 -> 650 [] level = 6 -> 878 [] level = 7 -> 1123
           [] level = 8 -> 1383 [] level = 9 -> 1656 [] level = 10 -> 1942
           [] level = 11 -> 2239 [] level = 12 -> 2546 [] level = 13 -> 2863
           [] level = 14 -> 3190 [] level = 15 -> 3526 [] level = 16 -> 3870
           [] OTHER -> Inf

RECURSIVE level_walk(_, _)
level_walk(xp, lvl) ==
    IF xp >= xp_needed_for_level(lvl + 1) THEN level_walk(xp, lvl + 1) ELSE lvl

level_from_xp(xp) == level_walk(xp, 1)

\* ------------------------------------------------------------------ pets
Pet ==
    [bond |-> 30000, energy |-> 70000, obedience |-> 60000, paw |-> 100000,
     alert |-> 50000, guard_mode |-> FALSE]

Pet_tick(pet, minutes) ==
    [pet EXCEPT !.energy = clamp(@ - (minutes * 2 * Milli) \div 60, 0, 100 * Milli)]

\* ------------------------------------------------------------ Game state
Kinds == {"photo", "dev", "mechanic", "guide", "artist", "gig"}

\* diesel_can_gal is kept in ten-thousandths of a gallon (DieselUnit per
\* thousandth), so that one tick's burn of 0.0375 gal is a whole number.
DieselUnit == 5 + 5

\* Game.__init__ for a config [vehicle_key, job_key, mode, start_cash].
Game_init(wld, config) ==
    LET v == VEHICLES(config.vehicle_key)
    IN [location |-> IF "moab" \in DOMAIN wld.nodes THEN "moab" ELSE wld.order[1],
        minutes |-> 8 * 60,
        vehicle_type |-> config.vehicle_key,
        job |-> config.job_key,
        mode |-> config.mode,
        water_cap_gallons |-> v.base_water_cap,
        food_cap_rations |-> v.base_food_cap,
        max_water_cap |-> v.max_water_cap,
        max_food_cap |-> v.max_food_cap,
        solar_cap_watts |-> v.solar_cap_watts,
        wind_cap_watts |-> v.wind_cap_watts,
        house_cap_ah |-> (100 * v.house_cap_factor),
        solar_watts |-> 0,
        wind_watts |-> 0,
        has_tent |-> FALSE,
        battery |-> 75 * Milli,
        water |-> Min(8 * Milli, v.base_water_cap),
        food |-> Min(6 * Milli, v.base_food_cap),
        cash |-> config.start_cash,
        morale |-> 60 * Milli,
        energy |-> 80 * Milli,
        xp |-> 0,
        level |-> 1,
        pet |-> << >>,
        route |-> << >>,
        route_idx |-> 0,
        ev_battery |-> 80 * Milli,
        ev_range_mi |-> v.ev_range,
        fuel_gal |-> IF config.mode = "fuel" THEN mul(600, v.fuel_tank_gal) ELSE 0,
        mpg |-> v.mpg,
        fuel_tank_gal |-> v.fuel_tank_gal,
        work_hours_day |-> 0 - 1,
        work_hours_today |-> [k \in Kinds |-> 0],
        base_draw_amps |-> 800,
        devices |->
          [camera   |-> [owned |-> FALSE, on |-> FALSE, amps |-> 1000],
           heater   |-> [owned |-> FALSE, on |-> FALSE, amps |-> 1200],
           fridge   |-> [owned |-> FALSE, on |-> FALSE, amps |-> 2000],
           laptop   |-> [owned |-> FALSE, on |-> FALSE, amps |-> 3000],
           starlink |-> [owned |-> FALSE, on |-> FALSE, amps |-> 4000],
           stove    |-> [owned |-> FALSE],
           jetboil  |-> [owned |-> FALSE]],
        diesel_can_gal |-> 0,
        propane_lb |-> 0,
        butane_can |-> 0]

node(g) == world.nodes[g.location]

dget(d, f, default) == IF f \in DOMAIN d THEN d[f] ELSE default

dev_active(g, name) ==
    name \in DOMAIN g.devices
    /\ dget(g.devices[name], "owned", FALSE) /\ dget(g.devices[name], "on", FALSE)

\* Game._pct_per_ah: percentage points per amp-hour.
pct_per_ah(g) == (100 * Milli * Milli) \div Max(Milli, g.house_cap_ah)

site_factor(sol) ==
    CASE sol = "excellent" -> 1000 [] sol = "good" -> 750
      [] sol = "fair" -> 500 [] sol = "poor" -> 250 [] OTHER -> 500

wind_fraction(wind) ==
    CASE wind = "low" -> 200 [] wind = "medium" -> 600 [] wind = "high" -> 1000

solar_input_watts_now(g) ==
    IF g.solar_watts <= 0 THEN 0
    ELSE LET w == derive_weather(node(g), g.minutes)
             uv_norm == clamp((w.uv * Milli) \div Max(1, get_season(g.minutes).uv_peak),
                              0, Milli)
         IN mul(mul(g.solar_watts, site_factor(node(g).solar)), uv_norm)

wind_input_watts_now(g) ==
    IF g.wind_watts <= 0 THEN 0
    ELSE mul(g.wind_watts, wind_fraction(derive_weather(node(g), g.minutes).wind))

\* The amps Game._load_amps_now returns.
load_amps_now(g) ==
    g.base_draw_amps
    + (IF dev_active(g, "fridge") THEN g.devices["fridge"].amps ELSE 0)
    + (IF dev_active(g, "starlink") THEN g.devices["starlink"].amps ELSE 0)
    + (IF dev_active(g, "laptop") THEN g.devices["laptop"].amps ELSE 0)
    + (IF dev_active(g, "heater") /\ g.diesel_can_gal > 0
       THEN g.devices["heater"].amps ELSE 0)

\* The state Game._load_amps_now leaves: a heater that is on without diesel
\* is switched off.
load_amps_effect(g) ==
    IF dev_active(g, "heater") /\ ~(g.diesel_can_gal > 0)
    THEN [g EXCEPT !.devices["heater"].on = FALSE]
    ELSE g

\* net_a of Game.compute_current, read before the load's side effect.
compute_current(g) ==
    With(solar_input_watts_now(g) \div SYSTEM_VOLTAGE, LAMBDA solar_a :
    With(wind_input_watts_now(g) \div SYSTEM_VOLTAGE, LAMBDA wind_a :
    With(load_amps_now(g), LAMBDA load_a :
      [net_a |-> (solar_a + wind_a) - load_a, solar_a |-> solar_a,
       wind_a |-> wind_a, load_a |-> load_a])))

\* make_cli_prompt: the prompt calls compute_current before every command.
make_cli_prompt(g) == load_amps_effect(g)

\* --------------------------------------------------------------- XP helper
\* Game.add_xp on an amount already truncated by the caller's int().
add_xp_stale_level(g, amount) ==
    IF Max(0, amount) <= 0 THEN g ELSE [g EXCEPT !.xp = g.xp + amount]

add_xp(g, amount) ==
    IF Max(0, amount) <= 0 THEN g
    ELSE [g EXCEPT !.xp = g.xp + amount, !.level = level_from_xp(g.xp + amount)]

\* ------------------------------------------------------------ Time advance
advance_ticks_floor(minutes) == minutes \div TURN_MINUTES

\* range(max(1, minutes // TURN_MINUTES)): the ticks one call runs.
advance_ticks(minutes) == Max(1, minutes \div TURN_MINUTES)

tick_delta_pct_charge_only(g, net_a) ==
    IF net_a < 0 THEN 0
    ELSE (net_a * ((TURN_MINUTES * 1000) \div 60)) \div (Max(Milli, g.house_cap_ah) \div 100)

\* delta_pct of one tick for a net current, against the house capacity.
tick_delta_pct(g, net_a) ==
    (net_a * ((TURN_MINUTES * 1000) \div 60)) \div (Max(Milli, g.house_cap_ah) \div 100)

\* Step 1 of a tick: integrate the net current into the house battery.
tick_battery(g) ==
    [load_amps_effect(g) EXCEPT
        !.battery = clamp(g.battery + tick_delta_pct(g, compute_current(g).net_a),
                          0, 100 * Milli)]

\* Step 2: the diesel heater burns 0.15 gal an hour.
tick_heater(g) ==
    LET burn == (150 * DieselUnit * TURN_MINUTES) \div 60
    IN IF dev_active(g, "heater")
       THEN IF g.diesel_can_gal >= burn
            THEN [g EXCEPT !.diesel_can_gal = @ - burn]
            ELSE [g EXCEPT !.diesel_can_gal = 0, !.devices["heater"].on = FALSE]
       ELSE g

\* Steps 4-5: passive drains, companion.
tick_drains_unclamped(g) ==
    [g EXCEPT !.water = @ - 30, !.energy = clamp(@ - 800, 0, 100 * Milli)]

tick_drains(g) ==
    [g EXCEPT !.water = clamp(@ - 30, 0, g.water_cap_gallons),
              !.energy = clamp(@ - 800, 0, 100 * Milli)]

tick_pet(g) ==
    IF g.pet # << >> THEN [g EXCEPT !.pet = << Pet_tick(g.pet[1], TURN_MINUTES) >>]
    ELSE g

\* The EV gain of one tick from the panels: (solar_watts/1000)*4*site*uv/4.
ev_solar_gain(g, nd, minutes) ==
    LET uv_norm == clamp((derive_weather(nd, minutes).uv * Milli)
                         \div Max(Milli, get_season(minutes).uv_peak), 0, Milli)
    IN mul(mul(g.solar_watts \div 1000, site_factor(nd.solar)), uv_norm)

\* The EV gain of one tick from the turbine: (wind_watts/300)*ev_level/4.
ev_wind_gain(g, nd, minutes) ==
    (g.wind_watts * wind_fraction(derive_weather(nd, minutes).wind)) \div (300 * 4 * Milli)

\* Step 6: EV trickle, electric mode only.
tick_ev(g) ==
    IF g.mode = "electric"
    THEN With(IF is_daylight(g.minutes) /\ g.solar_watts > 0
              THEN [g EXCEPT !.ev_battery =
                       clamp(@ + ev_solar_gain(g, node(g), g.minutes), 0, 100 * Milli)]
              ELSE g, LAMBDA g1 :
           IF g1.wind_watts > 0
           THEN [g1 EXCEPT !.ev_battery =
                    clamp(@ + ev_wind_gain(g1, node(g1), g1.minutes), 0, 100 * Milli)]
           ELSE g1)
    ELSE g

advance_tick_burn_first(g) ==
    tick_ev(tick_pet(tick_drains(
      [tick_battery(tick_heater(g)) EXCEPT !.minutes = @ + TURN_MINUTES])))

\* One pass of advance's loop body; step 3 moves the clock.
advance_tick(g) ==
    tick_ev(tick_pet(tick_drains(
      [tick_heater(tick_battery(g)) EXCEPT !.minutes = @ + TURN_MINUTES])))

\* The loop of advance: n ticks in order (each tick's state is computed
\* before the next tick starts).
RECURSIVE advance_n(_, _)
advance_n(g, n) ==
    IF n <= 0 THEN g
    ELSE IF n = 1 THEN advance_tick(g)
    ELSE With(advance_n(g, n \div 2), LAMBDA g1 : advance_n(g1, n - n \div 2))

advance_exact(g, minutes) ==
    [advance_n(g, advance_ticks(minutes)) EXCEPT !.minutes = g.minutes + minutes]

\* Game.advance(minutes).
advance(g, minutes) == advance_n(g, advance_ticks(minutes))

\* A handler's return: the Game it leaves and what it reported.
Ret(g, res) == [g |-> g, res |-> res]

\* ------------------------------------------------------------------ routing
route_to_keep_cursor(g, dest_key) ==
    With(find_node(world, dest_key), LAMBDA nid :
      IF nid = "" THEN Ret(g, "unknown_destination")
      ELSE IF nid = g.location THEN Ret(g, "already_here")
      ELSE With(dijkstra_route(world, g.location, nid, g.minutes), LAMBDA r :
             IF r.status = "raise" THEN Ret(g, "raise")
             ELSE IF r.status = "none" \/ r.path = << >> THEN Ret(g, "no_route")
             ELSE Ret([g EXCEPT !.route = r.path], "ok")))

route_to_forgetful(g, dest_key) ==
    With(find_node(world, dest_key), LAMBDA nid :
      IF nid = "" THEN Ret(g, "unknown_destination")
      ELSE IF nid = g.location THEN Ret(g, "already_here")
      ELSE With(dijkstra_route(world, g.location, nid, g.minutes), LAMBDA r :
             IF r.status = "raise" THEN Ret(g, "raise")
             ELSE Ret([g EXCEPT !.route = r.path, !.route_idx = 0],
                      IF r.status = "none" \/ r.path = << >> THEN "no_route" ELSE "ok")))

route_to(g, dest_key) ==
    With(find_node(world, dest_key), LAMBDA nid :
      IF nid = "" THEN Ret(g, "unknown_destination")
      ELSE IF nid = g.location THEN Ret(g, "already_here")
      ELSE With(dijkstra_route(world, g.location, nid, g.minutes), LAMBDA r :
             IF r.status = "raise" THEN Ret(g, "raise")
             ELSE IF r.status = "none" \/ r.path = << >> THEN Ret(g, "no_route")
             ELSE Ret([g EXCEPT !.route = r.path, !.route_idx = 0], "ok")))

\* needed_pct / needed_gal of drive's energy check for an edge of miles.
\* (miles and the range are taken in tenths of a mile to keep the product small.)
needed_pct(g, miles) ==
    ((miles \div 100) * 100 * Milli) \div (Max(Milli, g.ev_range_mi) \div 100)

needed_gal(g, miles) == (miles * Milli) \div Max(Milli, g.mpg)

energy_ok_unchecked(g, miles) == TRUE

\* drive's energy check: TRUE when the store covers the edge.
energy_ok(g, miles) ==
    IF g.mode = "electric" THEN ~(g.ev_battery < needed_pct(g, miles))
    ELSE ~flt_lt(g.fuel_gal, needed_gal(g, miles))

drive_energy_free(g, miles, hours) == g

\* The deduction of the energy store, and the alternator credit in fuel mode.
drive_energy(g, miles, hours) ==
    IF g.mode = "electric"
    THEN [g EXCEPT !.ev_battery = clamp(@ - needed_pct(g, miles), 0, 100 * Milli)]
    ELSE [g EXCEPT !.fuel_gal = flt_max0(flt_sub(@, needed_gal(g, miles))),
                   !.battery = clamp(@ + (2 * hours * Milli) \div pct_per_ah(g),
                                     0, 100 * Milli)]

drive_drains(g, hours) ==
    LET g1 == [g EXCEPT !.water = clamp(@ - mul(100, hours), 0, g.water_cap_gallons),
                        !.energy = clamp(@ - 6 * hours, 0, 100 * Milli)]
    IN IF g1.pet # << >>
       THEN [g1 EXCEPT !.pet[1].energy = clamp(@ - 4 * hours, 0, 100 * Milli),
                       !.pet[1].alert = clamp(@ + 5 * Milli, 0, 100 * Milli)]
       ELSE g1

\* The detour roll: extra turns (0 when none).
drive_detour(frm, to, minutes) ==
    With(seeded_rng(<<hash_str(frm), hash_str(to), hash_int(minutes \div 60)>>), LAMBDA rng :
      IF rng_random(rng, 1) < 60 THEN rng_randint(rng, 2, 1, 3) ELSE 0)

drive_xp(conn) ==
    LET road == conn.road
        grade == conn.grade
        road_xp ==
          CASE road = "interstate" -> 250 [] road = "highway" -> 300
            [] road = "scenic" -> 400 [] road = "mixed" -> 350
            [] road = "gravel" -> 600 [] road = "trail" -> 1000 [] OTHER -> 300
        grade_xp ==
          CASE grade = "flat" -> 1000 [] grade = "light" -> 1050
            [] grade = "moderate" -> 1150 [] grade = "mixed" -> 1100
            [] grade = "steep" -> 1300 [] OTHER -> 1000
    IN trunc(mul(mul(conn.miles, road_xp), grade_xp))

\* drive from the edge at the route cursor on: the energy check, then the
\* deductions, the detour roll, the time advance, the arrival and the XP.
drive_edge(g) ==
    With(g.route[g.route_idx + 1], LAMBDA e :
    With(edge_drive_turns(world, e.frm, e.conn, g.minutes), LAMBDA turns :
    With((turns * TURN_MINUTES * Milli) \div 60, LAMBDA hours :
      IF ~energy_ok(g, e.conn.miles) THEN Ret(g, "not_enough_energy")
      ELSE With(drive_drains(drive_energy(g, e.conn.miles, hours), hours), LAMBDA g1 :
           With(drive_detour(e.frm, e.to, g1.minutes), LAMBDA delay :
           With(advance(g1, (turns + delay) * TURN_MINUTES), LAMBDA g2 :
             Ret(add_xp([g2 EXCEPT !.location = e.to, !.route_idx = @ + 1],
                        drive_xp(e.conn)),
                 IF delay > 0 THEN "ok_detour" ELSE "ok")))))))

drive_wrapping(g) ==
    IF g.route = << >> THEN Ret(g, "no_route")
    ELSE drive_edge([g EXCEPT !.route_idx = @ % Len(g.route)])

drive(g) ==
    IF g.route = << >> THEN Ret(g, "no_route")
    ELSE IF g.route_idx >= Len(g.route) THEN Ret(g, "route_complete")
    ELSE drive_edge(g)

\* ------------------------------------------------------------------ camping
Parks == {"zion", "bryce", "arches", "canyonlands", "capitol_reef"}

\* Sleep until the next 06:00.
camp_sleep_minutes(minutes) ==
    LET now == minutes % DAY_MINUTES
    IN IF now <= 6 * 60 THEN 6 * 60 - now ELSE (24 * 60 - now) + 6 * 60

\* Base gains and the ranger odds of a style, before any event.
camp_terms(g, style) ==
    CASE style = "paid" ->
           [energy_gain |-> 20, morale_gain |-> 10, pet_energy |-> 18, pet_bond |-> 2,
            ranger_knock |-> 10]
      [] style = "stealth" ->
           [energy_gain |-> 15, morale_gain |-> 6, pet_energy |-> 14, pet_bond |-> 2,
            ranger_knock |-> 80
                + (IF node(g).pet_rules = "strict" THEN 60 ELSE 0)
                + (IF g.pet # << >> /\ g.pet[1].alert > 60 * Milli THEN 40 ELSE 0)]
      [] OTHER ->
           [energy_gain |-> 23 + (IF g.has_tent THEN 4 ELSE 0),
            morale_gain |-> 12 + (IF g.has_tent THEN 3 ELSE 0),
            pet_energy |-> 20 + (IF g.has_tent THEN 3 ELSE 0), pet_bond |-> 3,
            ranger_knock |-> IF g.location \in Parks THEN 40 ELSE 5]

\* Overnight effects, applied before the time advance.
camp_overnight(g, t, sleep_minutes) ==
    LET g1 == [g EXCEPT
                 !.water = clamp(@ - (80 * sleep_minutes) \div 60, 0, g.water_cap_gallons),
                 !.food = Max(0, @ - Milli),
                 !.energy = clamp(@ + t.energy_gain * Milli, 0, 100 * Milli),
                 !.morale = clamp(@ + t.morale_gain * Milli, 0, 100 * Milli)]
    IN IF g1.pet # << >>
       THEN [g1 EXCEPT !.pet[1].energy = clamp(@ + t.pet_energy * Milli, 0, 100 * Milli),
                       !.pet[1].bond = clamp(@ + t.pet_bond * Milli, 0, 100 * Milli)]
       ELSE g1

\* The dispersed-camp signal roll and the remote income it allows.
camp_income(g, style) ==
    IF style = "dispersed"
    THEN With(seeded_rng(<<hash_str(g.location), hash_int(g.minutes \div 60),
                           hash_str("signal")>>), LAMBDA rng_sig :
         With(node(g).biome \cap {"desert", "swell", "salt", "mesa", "canyon"} # {},
              LAMBDA maybe_remote :
         With(~(maybe_remote /\ rng_random(rng_sig, 1) < 600), LAMBDA has_signal :
         With(JOBS(g.job).remote_camp_income, LAMBDA inc :
           IF inc # 0 /\ has_signal THEN [g EXCEPT !.cash = flt_add(@, inc)] ELSE g))))
    ELSE g

\* The ranger roll: only a stealth camper is fined.
camp_ranger(g, style, ranger_knock) ==
    With(seeded_rng(<<hash_str(g.location), hash_int(g.minutes \div 60), hash_str(style)>>),
         LAMBDA rng :
      IF rng_random(rng, 1) < ranger_knock /\ style = "stealth"
      THEN [g EXCEPT !.cash = flt_max0(flt_sub(@, 25 * Milli)),
                     !.morale = clamp(@ - 6 * Milli, 0, 100 * Milli)]
      ELSE g)

camp(g, style) ==
    IF style \notin {"stealth", "paid", "dispersed"} THEN Ret(g, "bad_style")
    ELSE With(camp_sleep_minutes(g.minutes), LAMBDA sleep_minutes :
         With(camp_terms(g, style), LAMBDA t :
         With(camp_overnight(g, t, sleep_minutes), LAMBDA g1 :
         With(camp_ranger(camp_income(g1, style), style, t.ranger_knock), LAMBDA g2 :
           Ret(add_xp(advance(g2, sleep_minutes),
                      CASE style = "paid" -> 10 [] style = "stealth" -> 15
                        [] OTHER -> 18), "ok")))))

\* ------------------------------------------------------------------ cooking
cook(g) ==
    IF g.food <= 0 THEN Ret(g, "no_food")
    ELSE LET stove == g.devices["stove"].owned /\ g.propane_lb >= 200
             jet == ~stove /\ g.devices["jetboil"].owned /\ g.butane_can >= 250
             g1 == IF stove THEN [g EXCEPT !.propane_lb = @ - 200]
                   ELSE IF jet THEN [g EXCEPT !.butane_can = @ - 250]
                   ELSE g
             use_water == IF g1.water >= 500 THEN 500 ELSE 0
             morale_boost == IF stove \/ jet THEN 9 ELSE 6
             g2 == [g1 EXCEPT !.food = @ - Milli,
                              !.water = clamp(@ - use_water, 0, g1.water_cap_gallons),
                              !.morale = clamp(@ + morale_boost * Milli, 0, 100 * Milli),
                              !.energy = clamp(@ + 6 * Milli, 0, 100 * Milli)]
         IN Ret(add_xp(advance(g2, TURN_MINUTES), 5), "ok")

\* NAP
sleep(g) ==
    With(advance(g, 120), LAMBDA g1 :
    With([g1 EXCEPT !.energy = clamp(@ + 20 * Milli, 0, 100 * Milli)], LAMBDA g2 :
      Ret(IF g2.pet # << >>
          THEN [g2 EXCEPT !.pet[1].energy = clamp(@ + 10 * Milli, 0, 100 * Milli)]
          ELSE g2, "ok")))

\* ------------------------------------------------------------------- hiking
house_wind_level(wind) ==
    CASE wind = "low" -> 0 [] wind = "medium" -> 800 [] wind = "high" -> 1500

\* The trickle that hike and work apply themselves before each advance(15).
session_trickle(g, nd) ==
    With(IF g.mode = "electric" /\ g.solar_watts > 0 /\ is_daylight(g.minutes)
         THEN [g EXCEPT !.ev_battery =
                  clamp(@ + ev_solar_gain(g, nd, g.minutes), 0, 100 * Milli)]
         ELSE g, LAMBDA g1 :
    With(derive_weather(nd, g.minutes).wind, LAMBDA wind :
      IF g1.wind_watts > 0
      THEN With([g1 EXCEPT !.battery =
                    clamp(@ + (((g1.wind_watts * house_wind_level(wind))
                                \div (300 * 4 * Milli)) * Milli) \div pct_per_ah(g1),
                          0, 100 * Milli)], LAMBDA g2 :
             IF g2.mode = "electric"
             THEN [g2 EXCEPT !.ev_battery =
                      clamp(@ + ev_wind_gain(g2, nd, g2.minutes), 0, 100 * Milli)]
             ELSE g2)
      ELSE g1))

RECURSIVE session_ticks(_, _, _)
session_ticks(g, nd, n) ==
    IF n <= 0 THEN g
    ELSE IF n = 1 THEN advance(session_trickle(g, nd), TURN_MINUTES)
    ELSE With(session_ticks(g, nd, n \div 2), LAMBDA g1 :
           session_ticks(g1, nd, n - n \div 2))

\* int((hours * 60) // TURN_MINUTES) or 1, for hours in thousandths.
hours_ticks(hours) ==
    LET n == (hours * 60) \div (TURN_MINUTES * Milli) IN IF n = 0 THEN 1 ELSE n

\* hike's own trim of the drawn hours to dusk.
hike_hours(minutes, base_hours) ==
    LET m == minutes % DAY_MINUTES
        minutes_left == 18 * 60 - m
    IN Min(Max(Milli, base_hours * Milli), Max(Milli, (minutes_left * Milli) \div 60))

hike_after(g, hours) ==
    LET extra_energy == Min(12, trunc(hours * 3))
        extra_water == (((120 * hours) \div Milli + 5) \div 10) * 10
        mult == JOBS(g.job).hike_energy_mult
        g1 == [g EXCEPT !.energy = clamp(@ - trunc(extra_energy * mult) * Milli,
                                         0, 100 * Milli),
                        !.water = clamp(@ - extra_water, 0, g.water_cap_gallons)]
    IN IF g1.pet # << >>
       THEN [g1 EXCEPT !.pet[1].energy =
                          clamp(@ - Max(6, trunc(hours * 2)) * Milli, 0, 100 * Milli),
                       !.pet[1].bond = clamp(@ + 2 * Milli, 0, 100 * Milli)]
       ELSE g1

hike_xp(g, nd, hours) ==
    With(derive_weather(nd, g.minutes), LAMBDA w_now :
    With(Milli + (IF w_now.wind = "high" THEN 150 ELSE 0)
               + (IF w_now.heat = "hot" THEN 100 ELSE 0), LAMBDA diff :
      trunc(mul(hours * 10, IF g.job = "trail_guide" THEN mul(diff, 1100) ELSE diff))))

\* base_hours: random.randint(1, 5); found: whether a view turned up.
hike(g, base_hours, found) ==
    IF ~(6 * 60 <= g.minutes % DAY_MINUTES /\ g.minutes % DAY_MINUTES < 18 * 60)
       /\ g.job # "trail_guide"
    THEN Ret(g, "not_safe")
    ELSE With(node(g), LAMBDA nd :
         With(hike_hours(g.minutes, base_hours), LAMBDA hours :
         With(session_ticks(g, nd, hours_ticks(hours)), LAMBDA g1 :
         With(hike_after(IF found
                         THEN [g1 EXCEPT !.morale = clamp(@ + 4 * Milli, 0, 100 * Milli)]
                         ELSE g1, hours), LAMBDA g3 :
           Ret(add_xp(g3, hike_xp(g3, nd, hours)), "ok")))))

\* --------------------------------------------------------------------- work
job_kind(job) ==
    CASE job = "photographer" -> "photo" [] job = "remote_dev" -> "dev"
      [] job = "mechanic" -> "mechanic" [] job = "trail_guide" -> "guide"
      [] job = "artist" -> "artist" [] OTHER -> "photo"

photogenic(biome) ==
    LET p1 == IF biome \cap {"arches", "canyon"} # {} THEN 1350 ELSE 1000
        p2 == IF "desert" \in biome THEN Max(p1, 1250) ELSE p1
        p3 == IF "salt" \in biome THEN Max(p2, 1300) ELSE p2
    IN IF "alpine" \in biome THEN Max(p3, 1150) ELSE p3

work_rollover_never(g) ==
    IF g.work_hours_day < 0
    THEN [g EXCEPT !.work_hours_day = g.minutes \div DAY_MINUTES,
                   !.work_hours_today = [k \in Kinds |-> 0]]
    ELSE g

\* The day roll-over of the fatigue tally at the top of work().
work_rollover(g) ==
    LET today == g.minutes \div DAY_MINUTES
    IN IF g.work_hours_day # today
       THEN [g EXCEPT !.work_hours_day = today, !.work_hours_today = [k \in Kinds |-> 0]]
       ELSE g

\* has_signal of work('dev').
dev_signal(g, windows) ==
    IF ~g.devices["starlink"].owned
    THEN LET biome_signal == IF "town" \in node(g).biome THEN 950 ELSE 550
             rng == seeded_rng(<<hash_str(g.location), hash_int(g.minutes \div DAY_MINUTES),
                                 hash_str("signal")>>)
         IN rng_random(rng, 1) < biome_signal
    ELSE windows \cap {"daylight", "night"} # {}

\* base and tip_mult of a work kind, and for a gig its own hours.
work_terms(g, kind, hours, windows) ==
    With(g.location = "moab", LAMBDA in_moab :
    With(seeded_rng(<<hash_str(g.location), hash_int(g.minutes \div DAY_MINUTES),
                      hash_str("gig")>>), LAMBDA rng :
      CASE kind = "photo" ->
              [base |-> mul(22 * Milli, photogenic(node(g).biome)), hours |-> hours,
               tip_mult |-> Max(Max(window_multiplier("golden_hour", windows),
                                    window_multiplier("sunrise", windows)),
                                window_multiplier("night_clear", windows))]
         [] kind = "dev" ->
              [base |-> mul(28 * Milli, IF in_moab THEN 1200 ELSE 1000), hours |-> hours,
               tip_mult |-> Milli]
         [] kind = "mechanic" ->
              [base |-> IF in_moab THEN 30 * Milli ELSE 22 * Milli, hours |-> hours,
               tip_mult |-> Milli]
         [] kind = "guide" ->
              [base |-> IF g.location \in Parks \/ in_moab THEN 24 * Milli ELSE 18 * Milli,
               hours |-> hours,
               tip_mult |-> Max(window_multiplier("morning", windows),
                                window_multiplier("golden_hour", windows))]
         [] kind = "artist" ->
              [base |-> mul(18 * Milli, 1050), hours |-> hours,
               tip_mult |-> Max(Milli, window_multiplier("golden_hour", windows))]
         [] OTHER ->
              [base |-> rng_uniform(rng, 2, 18 * Milli, 32 * Milli),
               hours |-> rng_uniform(rng, 1, 1500, 3000),
               tip_mult |-> rng_uniform(rng, 3, 900, 1200)]))

fatigue_mult_late(prev) ==
    IF prev <= 4 * Milli THEN 1000 ELSE IF prev < 6 * Milli THEN 850
    ELSE IF prev < 8 * Milli THEN 700 ELSE 550

fatigue_mult(prev) ==
    IF prev < 4 * Milli THEN 1000 ELSE IF prev < 6 * Milli THEN 850
    ELSE IF prev < 8 * Milli THEN 700 ELSE 550

perk_mult(g, kind) ==
    CASE kind = "photo" -> Milli + mul(JOBS(g.job).epic_bonus, 500)
      [] kind = "artist" -> Milli + mul(JOBS(g.job).epic_bonus, 250)
      [] kind = "dev" /\ g.job = "remote_dev" -> 1100
      [] kind = "mechanic" /\ g.job = "mechanic" -> 1100
      [] kind = "guide" /\ g.job = "trail_guide" -> 1100
      [] OTHER -> Milli

\* hourly = base * tip_mult * perk_mult * fatigue_mult * variance.
work_hourly(g, kind, t) ==
    LET rng == seeded_rng(<<hash_str(g.location), hash_int(g.minutes \div DAY_MINUTES),
                            hash_str(kind)>>)
        variance == rng_uniform(rng, 1, 900, 1150)
    IN mul(mul(mul(mul(t.base, t.tip_mult), perk_mult(g, kind)),
               fatigue_mult(g.work_hours_today[kind])), variance)

\* The print-sale bonus of a photo or artist session (0 when none).
work_bonus(g, kind, windows) ==
    With(seeded_rng(<<hash_str(g.location), hash_int(g.minutes \div DAY_MINUTES),
                      hash_str(kind)>>), LAMBDA rng :
      IF kind \in {"photo", "artist"}
         /\ rng_random(rng, 2) < 150 + (IF "golden_hour" \in windows THEN 50 ELSE 0)
      THEN trunc(mul(rng_randint(rng, 3, 40, 140) * Milli,
                     Milli + JOBS(g.job).epic_bonus)) * Milli
      ELSE 0)

work_after(g, kind, hours, gross, cur_weather) ==
    LET extra_energy == trunc(mul(IF kind # "dev" THEN 2500 ELSE 1500, hours))
        extra_water == (((60 * hours) \div Milli + 5) \div 10) * 10
        diff == Milli + (IF cur_weather.wind = "high" THEN 100 ELSE 0)
                      + (IF cur_weather.heat = "hot" THEN 100 ELSE 0)
        g1 == [g EXCEPT !.energy = clamp(@ - extra_energy * Milli, 0, 100 * Milli),
                        !.water = clamp(@ - extra_water, 0, g.water_cap_gallons),
                        !.cash = flt_add(@, round0(gross) * Milli),
                        !.work_hours_today[kind] = @ + hours]
    IN add_xp(g1, trunc(mul(hours * 12, diff)))

\* kind0 as typed ('' or 'job' mean the player's own job); hours0 in whole
\* hours as typed, or as random.randint(1, 4) draws it when none is given.
work(g, kind0, hours0) ==
    With(node(g), LAMBDA nd :
    With(IF kind0 \in {"", "job"} THEN job_kind(g.job) ELSE kind0, LAMBDA kind :
    With(work_rollover(g), LAMBDA g0 :
    With(current_time_windows(g.minutes, nd), LAMBDA windows :
    With(derive_weather(nd, g.minutes), LAMBDA cur_weather :
      IF kind \notin Kinds THEN Ret(g0, "unknown_kind")
      ELSE IF kind = "dev" /\ ~dev_signal(g0, windows) THEN Ret(g0, "no_signal")
      ELSE With(work_terms(g0, kind, Max(Milli, Min(6 * Milli, hours0 * Milli)), windows),
                LAMBDA t :
           With(mul(work_hourly(g0, kind, t), t.hours) + work_bonus(g0, kind, windows),
                LAMBDA gross :
             Ret(work_after(session_ticks(g0, nd, hours_ticks(t.hours)),
                            kind, t.hours, gross, cur_weather), "ok"))))))))

\* --------------------------------------------------------------------- shop
Eff(key, dev, val) == [key |-> key, dev |-> dev, val |-> val, install |-> FALSE]

Install(key, dev) == [key |-> key, dev |-> dev, val |-> 0, install |-> TRUE]

\* The item catalog of the sessions explored.  Eff carries the effect's number
\* in thousandths ("+N" and N read alike), Install the value "install".
Catalog ==
    [food   |-> [price |-> 6000, effects |-> << Eff("food_rations", "", 1000) >>,
                 req_level |-> 0, req_exp |-> 0],
     water  |-> [price |-> 1000, effects |-> << Eff("water_gallons", "", 5000) >>,
                 req_level |-> 0, req_exp |-> 0],
     solar_panel |-> [price |-> 200000, effects |-> << Eff("solar_watts", "", 200000) >>,
                 req_level |-> 2, req_exp |-> 0],
     wind_turbine |-> [price |-> 90000, effects |-> << Eff("wind_watts", "", 150000) >>,
                 req_level |-> 0, req_exp |-> 0],
     tent   |-> [price |-> 80000, effects |-> << Install("has_tent", "") >>,
                 req_level |-> 0, req_exp |-> 0],
     starlink |-> [price |-> 500000,
                 effects |-> << Install("device", "starlink"),
                                Eff("device_amps", "starlink", 3500) >>,
                 req_level |-> 3, req_exp |-> 200],
     heater_kit |-> [price |-> 100000,
                 effects |-> << Install("device", "heater"),
                                Eff("diesel_can_gal", "", 1000) >>,
                 req_level |-> 0, req_exp |-> 0],
     lantern |-> [price |-> 20000,
                 effects |-> << Install("device", "lantern"),
                                Eff("device_amps", "lantern", 500) >>,
                 req_level |-> 0, req_exp |-> 20],
     water_tank |-> [price |-> 110000, effects |-> << Eff("water_cap_gallons", "", 1000) >>,
                 req_level |-> 0, req_exp |-> 0],
     pantry |-> [price |-> 40000, effects |-> << Eff("food_cap_rations", "", 1000) >>,
                 req_level |-> 0, req_exp |-> 0],
     battery_bank |-> [price |-> 300000, effects |-> << Eff("house_cap_ah", "", 50000) >>,
                 req_level |-> 0, req_exp |-> 0],
     range_pack |-> [price |-> 400000, effects |-> << Eff("ev_range_mi", "", 1000) >>,
                 req_level |-> 0, req_exp |-> 0],
     heater_unit |-> [price |-> 90000,
                 effects |-> << Install("device", "heater"),
                                Eff("diesel_can_gal", "", 75) >>,
                 req_level |-> 0, req_exp |-> 0],
     camera_kit |-> [price |-> 120000, effects |-> << Install("device", "camera") >>,
                 req_level |-> 0, req_exp |-> 0],
     stove_kit |-> [price |-> 45000,
                 effects |-> << Install("device", "stove"),
                                Eff("propane_lb", "", 1000) >>,
                 req_level |-> 0, req_exp |-> 0]]

setfield(d, f, v) == (f :> v) @@ d

\* Game._apply_effect(key, qty) for a magnitude qty in thousandths.
apply_effect_uncapped(g, key, dev, qty) ==
    CASE key = "solar_watts" -> [g EXCEPT !.solar_watts = @ + qty]
      [] key = "wind_watts" -> [g EXCEPT !.wind_watts = @ + qty]
      [] key = "water_cap_gallons" -> [g EXCEPT !.water_cap_gallons = @ + 10 * qty]
      [] key = "food_cap_rations" -> [g EXCEPT !.food_cap_rations = @ + 5 * qty]
      [] OTHER -> g

apply_effect(g, key, dev, qty) ==
    CASE key = "food_rations" ->
           [g EXCEPT !.food = Min(@ + qty, g.food_cap_rations)]
      [] key = "water_gallons" ->
           [g EXCEPT !.water = clamp(@ + qty, 0, g.water_cap_gallons)]
      [] key = "solar_watts" ->
           [g EXCEPT !.solar_watts = Min(@ + qty, g.solar_cap_watts)]
      [] key = "wind_watts" ->
           [g EXCEPT !.wind_watts = Min(@ + qty, g.wind_cap_watts)]
      [] key = "ev_range_mi" ->
           [g EXCEPT !.ev_range_mi = Min(@ + 40 * qty, 400 * Milli)]
      [] key = "water_cap_gallons" ->
           [g EXCEPT !.water_cap_gallons = Min(@ + 10 * qty, g.max_water_cap)]
      [] key = "food_cap_rations" ->
           [g EXCEPT !.food_cap_rations = Min(@ + 5 * qty, g.max_food_cap)]
      [] key = "house_cap_ah" ->
           [g EXCEPT !.house_cap_ah = clamp(@ + qty, 50 * Milli, 800 * Milli)]
      [] key = "has_tent" -> [g EXCEPT !.has_tent = TRUE]
      [] key = "device" ->
           IF dev \in DOMAIN g.devices /\ dget(g.devices[dev], "owned", FALSE) THEN g
           ELSE [g EXCEPT !.devices =
                    (dev :> setfield(IF dev \in DOMAIN g.devices THEN g.devices[dev]
                                     ELSE [owned |-> FALSE], "owned", TRUE)) @@ @]
      [] key = "diesel_can_gal" ->
           [g EXCEPT !.diesel_can_gal = Max(0, @ + qty * DieselUnit)]
      [] key = "propane_lb" -> [g EXCEPT !.propane_lb = Max(0, @ + qty)]
      [] key = "butane_can" -> [g EXCEPT !.butane_can = Max(0, @ + qty)]
      [] OTHER -> g

\* buy's first loop: every device_amps effect sets the device's amps.
RECURSIVE buy_amps(_, _, _)
buy_amps(g, effects, i) ==
    IF i > Len(effects) THEN g
    ELSE LET e == effects[i]
         IN IF e.key = "device_amps"
            THEN buy_amps([g EXCEPT !.devices =
                              (e.dev :> setfield(IF e.dev \in DOMAIN g.devices
                                                 THEN g.devices[e.dev]
                                                 ELSE << >>, "amps", e.val)) @@ @],
                          effects, i + 1)
            ELSE buy_amps(g, effects, i + 1)

\* buy's second loop: every effect through _apply_effect.
RECURSIVE buy_effects(_, _, _, _)
buy_effects(g, effects, qty, i) ==
    IF i > Len(effects) THEN g
    ELSE LET e == effects[i]
             mag == IF e.install THEN Milli ELSE e.val * qty
         IN buy_effects(apply_effect(g, e.key, e.dev, mag), effects, qty, i + 1)

\* TRUE when the item's level / experience requirement rejects the player.
buy_requires_fail(g, item) ==
    IF item.req_exp # 0 /\ item.req_level # 0
    THEN g.xp < item.req_exp \/ g.level < item.req_level
    ELSE IF item.req_level # 0 THEN g.level < item.req_level
    ELSE IF item.req_exp # 0 THEN g.xp < item.req_exp
    ELSE FALSE

buy_price(g, item, qty) ==
    LET price == item.price * qty
    IN IF item.price >= 150 * Milli
       THEN mul(price, Milli - JOBS(g.job).shop_discount)
       ELSE price

\* The order of Game.buy: location, item, cash, then the effects, and only
\* then the level / experience requirement, and last the payment.
buy(g, item_id, qty0) ==
    IF g.location # "moab" THEN Ret(g, "not_in_moab")
    ELSE IF item_id \notin DOMAIN Catalog THEN Ret(g, "unknown_item")
    ELSE With(IF qty0 <= 0 THEN 1 ELSE qty0, LAMBDA qty :
         With(Catalog[item_id], LAMBDA item :
         With(buy_price(g, item, qty), LAMBDA price :
           IF flt_lt(g.cash, price) THEN Ret(g, "not_enough_cash")
           ELSE With(buy_effects(buy_amps(g, item.effects, 1), item.effects, qty, 1),
                     LAMBDA g1 :
                  IF buy_requires_fail(g1, item) THEN Ret(g1, "requires")
                  ELSE Ret([g1 EXCEPT !.cash = flt_sub(@, price)], "ok")))))

\* ------------------------------------------------------------ mode / energy
set_mode(g, mode) ==
    IF mode \notin {"electric", "fuel"} THEN Ret(g, "bad_mode")
    ELSE Ret([g EXCEPT !.mode = mode], "ok")

\* A station charge: add_pct = 40.0 for cost = add_pct * 0.5 and one hour.
charge_station_on_credit(g) ==
    IF g.location # "moab" THEN Ret(g, "no_charger")
    ELSE Ret(advance([g EXCEPT !.cash = flt_sub(@, mul(40 * Milli, 500)),
                               !.ev_battery = clamp(@ + 40 * Milli, 0, 100 * Milli)],
                     60), "ok")

charge_station(g) ==
    IF g.location # "moab" THEN Ret(g, "no_charger")
    ELSE IF flt_lt(g.cash, mul(40 * Milli, 500)) THEN Ret(g, "not_enough_cash")
    ELSE Ret(advance([g EXCEPT !.cash = flt_sub(@, mul(40 * Milli, 500)),
                               !.ev_battery = clamp(@ + 40 * Milli, 0, 100 * Milli)],
                     60), "ok")

charge_solar(g) ==
    With(clamp((derive_weather(node(g), g.minutes).uv * Milli)
               \div Max(Milli, get_season(g.minutes).uv_peak), 0, Milli), LAMBDA uv_norm :
    With(mul(mul((g.solar_watts \div 1000) * 8, site_factor(node(g).solar)), uv_norm),
         LAMBDA add_pct :
      Ret(advance([g EXCEPT !.ev_battery = clamp(@ + add_pct, 0, 100 * Milli),
                            !.battery = clamp(@ + add_pct, 0, 100 * Milli)], 120), "ok")))

charge_wind(g) ==
    With(wind_fraction(derive_weather(node(g), g.minutes).wind), LAMBDA wind_factor :
    With(mul((g.wind_watts * 2) \div 300, wind_factor), LAMBDA add_pct :
      Ret(advance([g EXCEPT !.ev_battery = clamp(@ + add_pct, 0, 100 * Milli),
                            !.battery = clamp(@ + add_pct, 0, 100 * Milli)], 120), "ok")))

charge_any_mode(g, method) ==
    IF method \notin {"station", "solar", "wind"} THEN Ret(g, "bad_method")
    ELSE IF method = "station" THEN charge_station(g)
    ELSE IF method = "solar" THEN charge_solar(g)
    ELSE charge_wind(g)

charge(g, method) ==
    IF g.mode # "electric" THEN Ret(g, "not_electric")
    ELSE IF method \notin {"station", "solar", "wind"} THEN Ret(g, "bad_method")
    ELSE IF method = "station" THEN charge_station(g)
    ELSE IF method = "solar" THEN charge_solar(g)
    ELSE charge_wind(g)

\* The fuel level refuel leaves for g gallons bought.

\* gallons: float(gallons) in thousandths, NaN for a word float() reads as
\* nan; numeric is FALSE when float() raises.
refuel(g, gallons, numeric) ==
    IF g.mode # "fuel" THEN Ret(g, "not_fuel")
    ELSE IF g.location # "moab" THEN Ret(g, "no_fuel_here")
    ELSE IF ~numeric THEN Ret(g, "usage")
    ELSE IF gallons # NaN /\ gallons <= 0 THEN Ret(g, "bad_gallons")
    ELSE LET cost == IF gallons = NaN THEN NaN ELSE gallons * 4
         IN IF flt_lt(g.cash, cost) THEN Ret(g, "not_enough_cash")
            ELSE Ret(advance([g EXCEPT !.cash = flt_sub(@, cost),
                                       !.fuel_gal = flt_add(g.fuel_gal, gallons)], 10),
                     "ok")

\* --------------------------------------------------------------------- pets
pet_xp(g, add, hi) == clamp(g.xp + add, 0, hi)

adopt_pet_anywhere(g) ==
    IF g.pet # << >> THEN Ret(g, "already")
    ELSE With([g EXCEPT !.pet = << Pet >>,
                        !.morale = clamp(@ + 10 * Milli, 0, 100 * Milli)], LAMBDA g1 :
           Ret(add_xp(g1, pet_xp(g1, 10, 30)), "ok"))

adopt_pet(g) ==
    IF ~node(g).pet_adoption THEN Ret(g, "no_adoption")
    ELSE IF g.pet # << >> THEN Ret(g, "already")
    ELSE With([g EXCEPT !.pet = << Pet >>,
                        !.morale = clamp(@ + 10 * Milli, 0, 100 * Milli)], LAMBDA g1 :
           Ret(add_xp(g1, pet_xp(g1, 10, 30)), "ok"))

feed_pet(g) ==
    IF g.pet = << >> THEN Ret(g, "alone")
    ELSE IF g.food <= 0 THEN Ret(g, "no_food")
    ELSE With(advance([g EXCEPT !.food = @ - Milli,
                                !.pet[1].bond = clamp(@ + 6 * Milli, 0, 100 * Milli)],
                      TURN_MINUTES), LAMBDA g1 :
           Ret(add_xp(g1, pet_xp(g1, 5, 20)), "ok"))

water_pet(g) ==
    IF g.pet = << >> THEN Ret(g, "alone")
    ELSE IF g.water < 300 THEN Ret(g, "water_low")
    ELSE With(advance([g EXCEPT !.water = clamp(@ - 300, 0, g.water_cap_gallons),
                                !.pet[1].bond = clamp(@ + 3 * Milli, 0, 100 * Milli)],
                      TURN_MINUTES \div 2), LAMBDA g1 :
           Ret(add_xp(g1, pet_xp(g1, 5, 20)), "ok"))

walk_pet(g) ==
    IF g.pet = << >> THEN Ret(g, "alone")
    ELSE With(advance([g EXCEPT !.energy = clamp(@ + 2 * Milli, 0, 100 * Milli),
                                !.pet[1].energy = clamp(@ + 5 * Milli, 0, 100 * Milli),
                                !.pet[1].bond = clamp(@ + 4 * Milli, 0, 100 * Milli)],
                      30), LAMBDA g1 :
           Ret(add_xp(g1, pet_xp(g1, 10, 25)), "ok"))

play_with_pet(g) ==
    IF g.pet = << >> THEN Ret(g, "alone")
    ELSE With(advance([g EXCEPT !.pet[1].bond = clamp(@ + 5 * Milli, 0, 100 * Milli),
                                !.morale = clamp(@ + 4 * Milli, 0, 100 * Milli)],
                      20), LAMBDA g1 :
           Ret(add_xp(g1, pet_xp(g1, 15, 30)), "ok"))

command_pet(g, v) ==
    IF g.pet = << >> THEN Ret(g, "alone")
    ELSE CASE v = "GUARD" ->
                Ret([g EXCEPT !.pet[1].guard_mode = TRUE,
                              !.pet[1].alert = clamp(@ + 10 * Milli, 0, 100 * Milli)], "ok")
           [] v = "CALM" ->
                Ret([g EXCEPT !.pet[1].guard_mode = FALSE,
                              !.pet[1].alert = clamp(@ - 10 * Milli, 0, 100 * Milli)], "ok")
           [] v = "SEARCH" ->
                LET rng == seeded_rng(<<hash_str(g.location), hash_int(g.minutes \div 60),
                                        hash_str("search")>>)
                IN IF rng_random(rng, 1) < 400
                   THEN Ret(advance(add_xp([g EXCEPT !.water =
                                clamp(@ + Milli, 0, g.water_cap_gallons)], 20),
                                    TURN_MINUTES), "found")
                   ELSE Ret(advance(g, TURN_MINUTES), "nothing")
           [] v = "HEEL" -> Ret(g, "ok")
           [] v = "FETCH" ->
                Ret([g EXCEPT !.morale = clamp(@ + 2 * Milli, 0, 100 * Milli)], "ok")
           [] OTHER -> Ret(g, "bad_verb")

\* ------------------------------------------------------------------ devices
\* state: TRUE for 'on', 'true', '1'.
toggle_device(g, name, state) ==
    IF name \notin DOMAIN g.devices THEN Ret(g, "unknown_device")
    ELSE LET d == g.devices[name]
         IN IF ~dget(d, "owned", FALSE) THEN Ret(g, "not_owned")
            ELSE IF "on" \notin DOMAIN d THEN Ret(g, "no_switch")
            ELSE IF name = "heater" /\ state /\ g.diesel_can_gal <= 0
            THEN Ret(g, "no_diesel")
            ELSE Ret([g EXCEPT !.devices[name].on = state], "ok")

\* ---------------------------------------------------------------- self care
read_book(g) == Ret(add_xp(advance(g, 30), clamp(g.xp + 10, 0, 10)), "ok")

watch_something(g) == Ret(add_xp(advance(g, 30), clamp(g.xp + 10, 0, 15)), "ok")

\* PET on the command line: report_pet_status reads self.pet.name.
report_pet_status(g) == IF g.pet = << >> THEN Ret(g, "raise") ELSE Ret(g, "ok")

\* ------------------------------------------------------- the command loop
\* The configs character_creation hands to Game in the sessions explored
\* (start_cash is rng.randint(1000, 10000)).
Configs ==
    { [vehicle_key |-> "hatchback", job_key |-> "photographer", mode |-> "electric",
       start_cash |-> 1000 * Milli],
      [vehicle_key |-> "van", job_key |-> "mechanic", mode |-> "fuel",
       start_cash |-> 1000 * Milli],
      [vehicle_key |-> "truck_camper", job_key |-> "remote_dev", mode |-> "electric",
       start_cash |-> 1000 * Milli] }

\* Game._check_for_truck_camper, which main calls once after construction.
check_for_truck_camper(g) ==
    IF g.vehicle_type = "truck_camper" THEN adopt_pet(g).g ELSE g

NoProbe == [fn |-> "none"]

\* main up to its loop, for a session that will dispatch budget commands.
Start(budget) ==
    /\ world = World(<< "moab", "arches", "swell", "zion", "bryce" >>, UtahNodes)
    /\ hashsalt \in {0, MaxSalt}
    /\ \E config \in Configs : game = check_for_truck_camper(Game_init(world, config))
    /\ out = [op |-> "start", arg |-> << >>, res |-> "ok"]
    /\ steps = budget
    /\ probe = NoProbe


\* One turn of main's loop: the prompt (which calls compute_current), then
\* the handler of the command typed.  An exception out of a handler ends
\* the process.
Alive == out.res # "raise" /\ steps > 0

Dispatch(op, arg, r) ==
    /\ game' = r.g
    /\ out' = [op |-> op, arg |-> arg, res |-> r.res]
    /\ steps' = steps - 1
    /\ UNCHANGED <<world, hashsalt, probe>>


\* What the player types in the sessions explored.
Typed ==
    [route_to |-> {"arches", "zion", "bryce", "nowhere"},
     camp |-> {"stealth", "paid", "dispersed"},
     hike_hours |-> {4},
     work_kind |-> {"", "gig", "busk"},
     work_hours |-> {4},
     buy_item |-> {"water", "food", "solar_panel", "wind_turbine", "heater_kit",
                   "water_tank", "pantry", "anvil"},
     buy_qty |-> {3},
     bulk_item |-> {"wind_turbine", "water_tank"},
     bulk_qty |-> {9},
     round_trip |-> {"swell", "moab"},
     mode |-> {"electric", "fuel"},
     charge |-> {"station", "solar", "wind"},
     refuel |-> {0 - 1000, 5000, 30000},
     pet_verb |-> {"GUARD"},
     device |-> {"heater"},
     power_item |-> {"heater_kit", "heater_unit", "camera_kit", "solar_panel"},
     power_device |-> {"heater", "camera"},
     shift_kind |-> {"", "mechanic"},
     shift_hours |-> 1 .. 5,
     fill |-> {250 * Milli, 251 * Milli, NaN},
     trail_hours |-> 1 .. 5,
     signal_item |-> {"starlink"},
     long_kind |-> {"", "mechanic"},
     long_hours |-> {2, 6},
     mistyped |-> { <<"route_to", "nowhere">>, <<"route_to", "moab">>,
                    <<"route_to", "swell">>, <<"route_to", "bryce">>,
                    <<"camp", "hotel">>, <<"toggle_device", "toaster">>,
                    <<"toggle_device", "heater">>, <<"set_mode", "diesel">>,
                    <<"charge", "nuclear">>, <<"charge", "station">>,
                    <<"refuel", "0">>, <<"refuel", "lots">>, <<"refuel", "5">>,
                    <<"buy", "anvil">>, <<"buy", "water">>, <<"hike", "">> }]

CmdRouteTo == Alive /\ \E d \in Typed.route_to : Dispatch("route_to", <<d>>, route_to(make_cli_prompt(game), d))
CmdDrive == Alive /\ Dispatch("drive", << >>, drive(make_cli_prompt(game)))
CmdCamp == Alive /\ \E st \in Typed.camp : Dispatch("camp", <<st>>, camp(make_cli_prompt(game), st))
CmdCook == Alive /\ Dispatch("cook", << >>, cook(make_cli_prompt(game)))
CmdNap == Alive /\ Dispatch("sleep", << >>, sleep(make_cli_prompt(game)))
CmdHike ==
    Alive /\ \E h \in Typed.hike_hours, f \in BOOLEAN :
        Dispatch("hike", <<h, f>>, hike(make_cli_prompt(game), h, f))
CmdWork ==
    Alive /\ \E k \in Typed.work_kind, h \in Typed.work_hours :
        Dispatch("work", <<k, h>>, work(make_cli_prompt(game), k, h))
CmdBuy ==
    Alive /\ \E it \in Typed.buy_item, q \in Typed.buy_qty :
        Dispatch("buy", <<it, q>>, buy(make_cli_prompt(game), it, q))
CmdMode == Alive /\ \E m \in Typed.mode : Dispatch("set_mode", <<m>>, set_mode(make_cli_prompt(game), m))
CmdCharge == Alive /\ \E m \in Typed.charge : Dispatch("charge", <<m>>, charge(make_cli_prompt(game), m))
CmdRefuel ==
    Alive /\ \E gal \in Typed.refuel : Dispatch("refuel", <<gal>>, refuel(make_cli_prompt(game), gal, TRUE))
\* REFUEL with all the cash buys, a gallon more, and REFUEL nan.
CmdFill ==
    Alive /\ \E gal \in Typed.fill : Dispatch("refuel", <<gal>>, refuel(make_cli_prompt(game), gal, TRUE))
CmdAdoptPet == Alive /\ Dispatch("adopt_pet", << >>, adopt_pet(make_cli_prompt(game)))
CmdFeedPet == Alive /\ Dispatch("feed_pet", << >>, feed_pet(make_cli_prompt(game)))
CmdWaterPet == Alive /\ Dispatch("water_pet", << >>, water_pet(make_cli_prompt(game)))
CmdWalkPet == Alive /\ Dispatch("walk_pet", << >>, walk_pet(make_cli_prompt(game)))
CmdPlayWithPet == Alive /\ Dispatch("play_with_pet", << >>, play_with_pet(make_cli_prompt(game)))
CmdCommandPet ==
    Alive /\ \E v \in Typed.pet_verb : Dispatch("command_pet", <<v>>, command_pet(make_cli_prompt(game), v))
CmdTurn ==
    Alive /\ \E n \in Typed.device, st \in BOOLEAN :
        Dispatch("toggle_device", <<n, st>>, toggle_device(make_cli_prompt(game), n, st))
CmdRead == Alive /\ Dispatch("read_book", << >>, read_book(make_cli_prompt(game)))
CmdWatch == Alive /\ Dispatch("watch_something", << >>, watch_something(make_cli_prompt(game)))
CmdPet == Alive /\ Dispatch("report_pet_status", << >>, report_pet_status(make_cli_prompt(game)))

Next ==
    \/ CmdRouteTo \/ CmdDrive \/ CmdCamp \/ CmdCook \/ CmdNap \/ CmdHike \/ CmdWork
    \/ CmdBuy \/ CmdMode \/ CmdCharge \/ CmdRefuel \/ CmdAdoptPet \/ CmdFeedPet
    \/ CmdWaterPet \/ CmdWalkPet \/ CmdPlayWithPet \/ CmdCommandPet \/ CmdTurn
    \/ CmdRead \/ CmdWatch \/ CmdPet \/ CmdFill

Spec == Start(MaxSteps) /\ [][Next]_vars

\* ------------------------------------------------- a session on the road
\* Sessions of routing, driving, charging and refuelling, after at most one
\* bulk purchase at the shop.
MaxTravelSteps == 4

CmdOutfit ==
    Alive /\ \E it \in Typed.bulk_item, q \in Typed.bulk_qty :
        Dispatch("buy", <<it, q>>, buy(make_cli_prompt(game), it, q))

SpecTravel ==
    Start(MaxTravelSteps)
      /\ [][CmdRouteTo \/ CmdDrive \/ CmdMode \/ CmdCharge \/ CmdRefuel \/ CmdOutfit]_vars

\* ------------------------------------------------- a round trip to the swell
\* Sessions that drive out to the swell and back to moab's charger, with at
\* most one bulk purchase on the way.
MaxCommuteSteps == 5

CmdCommute ==
    Alive /\ \E d \in Typed.round_trip : Dispatch("route_to", <<d>>, route_to(make_cli_prompt(game), d))

SpecCommute ==
    Start(MaxCommuteSteps) /\ [][CmdCommute \/ CmdDrive \/ CmdCharge \/ CmdOutfit]_vars

\* ------------------------------------------------- Game.advance, called alone
MaxAdvanceCalls == 2

\* One call of advance(m) on the game as it stands, for the minutes the call
\* sites pass (0, water_pet's 7, refuel's 10, a tick, play_with_pet's 20,
\* walk_pet's 30, 44, a nap's 120, a night's 1320); probe keeps the argument
\* and the clock before the call.
CallAdvance ==
    /\ steps > 0
    /\ \E m \in {0, 7, 10, 15, 20, 30, 44, 120, 1320} :
         /\ game' = advance(game, m)
         /\ probe' = [fn |-> "advance", minutes |-> m, clock |-> game.minutes]
    /\ steps' = steps - 1
    /\ UNCHANGED <<world, hashsalt, out>>

SpecAdvance == Start(MaxAdvanceCalls) /\ [][CallAdvance]_vars

\* ------------------------------------------------- dijkstra_route, called alone
\* A node of a routing world: no monsoon tag, a flash_flood tag or none.
RouteNode(id, flood, conns) ==
    [id |-> id, biome |-> {"desert"}, elevation_ft |-> 4000, solar |-> "fair",
     monsoon_rule |-> FALSE, flash_flood_rule |-> flood,
     pet_adoption |-> (id = "moab"), pet_rules |-> "relaxed", connections |-> conns]

\* The connection list of a node file entry: an edge of 0 miles is left out.
RouteConns(edges) ==
    SelectSeq(edges, LAMBDA c : c.miles > 0)

\* The four-node world files explored: a diamond moab - arches | swell - zion
\* with an optional direct road moab - zion of 100 miles, each leg absent, 27
\* or 60 miles long.
RouteWorlds ==
    { World(<< "moab", "arches", "swell", "zion" >>,
            [moab |-> RouteNode("moab", FALSE,
                        RouteConns(<< Conn("arches", "highway", "flat", ma),
                                      Conn("swell", "highway", "flat", ms),
                                      Conn("zion", "highway", "flat", mz) >>)),
             arches |-> RouteNode("arches", TRUE,
                        RouteConns(<< Conn("zion", "highway", "flat", az) >>)),
             swell |-> RouteNode("swell", TRUE,
                        RouteConns(<< Conn("zion", "highway", "flat", sz) >>)),
             zion |-> RouteNode("zion", FALSE, << >>)]) :
        ma \in {0, 27, 60}, ms \in {0, 27, 60}, az \in {0, 27, 60}, sz \in {0, 27, 60},
        mz \in {0, 100} }

MaxRouteCalls == 1

InitRoute ==
    /\ world \in RouteWorlds
    /\ hashsalt \in {0, MaxSalt}
    /\ \E config \in { c \in Configs : c.vehicle_key = "van" } : game = check_for_truck_camper(Game_init(world, config))
    /\ out = [op |-> "start", arg |-> << >>, res |-> "ok"]
    /\ steps = MaxRouteCalls
    /\ probe = NoProbe

\* One call of dijkstra_route(world, src, dst, t) from moab or arches,
\* leaving at 08:00 on day 1 (spring) or at 07:30 on day 101 (summer, half
\* an hour before the morning turns hot); probe keeps the arguments and what
\* the call returned.
CallRoute ==
    /\ steps > 0
    /\ \E src \in {"moab", "arches"}, dst \in DOMAIN world.nodes,
          t \in {8 * 60, 100 * DAY_MINUTES + 7 * 60 + 30} :
         probe' = [fn |-> "dijkstra_route", src |-> src, dst |-> dst, minutes |-> t,
                   r |-> dijkstra_route(world, src, dst, t)]
    /\ steps' = steps - 1
    /\ UNCHANGED <<game, world, hashsalt, out>>

SpecRoute == InitRoute /\ [][CallRoute]_vars

\* ------------------------------------------------- derive_weather, called alone
MaxWeatherCalls == 2

\* One call of derive_weather(node, t) for a node of the world at 08:00 or
\* 13:00 on one of the first days; probe keeps the arguments, the sample
\* returned and the str-hash salt of the process that made the call.
CallWeather ==
    /\ steps > 0
    /\ \E n \in DOMAIN world.nodes, d \in 0..MaxProbeDay, m \in {8 * 60, 13 * 60} :
         probe' = [fn |-> "derive_weather", node |-> n, minutes |-> d * DAY_MINUTES + m,
                   w |-> derive_weather(world.nodes[n], d * DAY_MINUTES + m),
                   salt |-> hashsalt]
    /\ steps' = steps - 1
    /\ UNCHANGED <<game, world, hashsalt, out>>

\* The process ends and the program is started again: the interpreter draws
\* a new str-hash salt and main builds a new Game.  probe, the record of the
\* last sample seen, is the observer's and outlives the process.
Restart ==
    /\ probe.fn = "derive_weather"
    /\ hashsalt' \in {0, MaxSalt}
    /\ \E config \in Configs : game' = check_for_truck_camper(Game_init(world, config))
    /\ out' = [op |-> "start", arg |-> << >>, res |-> "ok"]
    /\ steps' = MaxWeatherCalls
    /\ UNCHANGED <<world, probe>>

SpecWeather == Start(MaxWeatherCalls) /\ [][CallWeather \/ Restart]_vars

EnergyCheckFails ==
    /\ game.route # << >>
    /\ game.route_idx < Len(game.route)
    /\ IF game.mode = "electric"
       THEN game.ev_battery < needed_pct(game, game.route[game.route_idx + 1].conn.miles)
       ELSE game.fuel_gal < needed_gal(game, game.route[game.route_idx + 1].conn.miles)

\* C2: a drive() that fails the energy check leaves location, ev_battery,
\* fuel_gal, house battery, water, energy, the companion's stats, the clock,
\* XP and route_idx as they were before the call, in either mode.
C2_FailedDriveChangesNothing ==
    [][(out'.op = "drive" /\ EnergyCheckFails)
       => /\ out'.res = "not_enough_energy"
          /\ game'.location = game.location
          /\ game'.ev_battery = game.ev_battery
          /\ game'.fuel_gal = game.fuel_gal
          /\ game'.battery = game.battery
          /\ game'.water = game.water
          /\ game'.energy = game.energy
          /\ game'.pet = game.pet
          /\ game'.minutes = game.minutes
          /\ game'.xp = game.xp
          /\ game'.level = game.level
          /\ game'.route_idx = game.route_idx]_vars

\* A fuel-mode drive has just been refused for lack of fuel, a route set.
C2_Witness ==
    /\ out.op = "drive"
    /\ out.res = "not_enough_energy"
    /\ game.mode = "fuel"
    /\ game.route # << >>
    /\ game.fuel_gal < needed_gal(game, game.route[game.route_idx + 1].conn.miles)

\* ------------------------------------------------------------------- C3
\* C3: a buy() rejected for the item's level or experience requirement
\* changes nothing: cash, the stores (food, water, diesel, propane, butane),
\* the upgrade levels (solar_watts, wind_watts, ev_range_mi, house_cap_ah),
\* the capacity caps, has_tent and every device's owned and amps fields are
\* as before the call.
C3_RejectedBuyChangesNothing ==
    [][(out'.op = "buy" /\ out'.res = "requires")
       => /\ game'.cash = game.cash
          /\ game'.food = game.food
          /\ game'.water = game.water
          /\ game'.diesel_can_gal = game.diesel_can_gal
          /\ game'.propane_lb = game.propane_lb
          /\ game'.butane_can = game.butane_can
          /\ game'.solar_watts = game.solar_watts
          /\ game'.wind_watts = game.wind_watts
          /\ game'.ev_range_mi = game.ev_range_mi
          /\ game'.house_cap_ah = game.house_cap_ah
          /\ game'.water_cap_gallons = game.water_cap_gallons
          /\ game'.food_cap_rations = game.food_cap_rations
          /\ game'.has_tent = game.has_tent
          /\ DOMAIN game'.devices = DOMAIN game.devices
          /\ \A d \in DOMAIN game.devices :
                /\ game'.devices[d].owned = game.devices[d].owned
                /\ dget(game'.devices[d], "amps", 0) = dget(game.devices[d], "amps", 0)]_vars

\* ------------------------------------------------------------------- C4
PctInRange(v) == 0 <= v /\ v <= 100 * 1000

\* C4: the house battery, the EV battery, the player's energy and morale
\* and, when there is a companion, its bond, energy and alert are each
\* within [0, 100] in every state the session reaches.
C4_PercentStatsInRange ==
    /\ PctInRange(game.battery)
    /\ PctInRange(game.ev_battery)
    /\ PctInRange(game.energy)
    /\ PctInRange(game.morale)
    /\ game.pet # << >>
         => /\ PctInRange(game.pet[1].bond)
            /\ PctInRange(game.pet[1].energy)
            /\ PctInRange(game.pet[1].alert)

\* A station charge on top of 80% has left the EV battery at the 100% bound.
C4_Witness ==
    /\ out.op = "charge"
    /\ out.res = "ok"
    /\ game.ev_battery = 100 * 1000

\* ------------------------------------------------------------------- C5
\* C5: 0 <= water <= water_cap_gallons and 0 <= food <= food_cap_rations in
\* every state the session reaches.
C5_StoresWithinCaps ==
    /\ 0 <= game.water
    /\ game.water <= game.water_cap_gallons
    /\ 0 <= game.food
    /\ game.food <= game.food_cap_rations

\* A night's camp after a meal has left both the water and the food at 0.
C5_Witness ==
    /\ out.op = "camp"
    /\ out.res = "ok"
    /\ game.water = 0
    /\ game.food = 0

\* ------------------------------------------------------------------- C6
\* C6: 0 <= fuel_gal <= fuel_tank_gal in every state the session reaches.
C6_FuelWithinTank ==
    /\ 0 <= game.fuel_gal
    /\ game.fuel_gal <= game.fuel_tank_gal

\* ------------------------------------------------------------------- C7
\* C7: in electric mode at moab with no solar and no wind capacity, a
\* station charge with cash >= 20 sets ev_battery to min(100, ev_battery + 40)
\* and takes 20 from cash; with cash < 20 it leaves ev_battery, cash and the
\* clock unchanged.
C7_StationCharge ==
    [][(/\ out'.op = "charge"
        /\ out'.arg = <<"station">>
        /\ game.mode = "electric"
        /\ game.location = "moab"
        /\ game.solar_watts = 0
        /\ game.wind_watts = 0)
       => IF game.cash >= 20 * 1000
          THEN /\ game'.ev_battery
                    = (IF game.ev_battery + 40 * 1000 > 100 * 1000 THEN 100 * 1000
                       ELSE game.ev_battery + 40 * 1000)
               /\ game'.cash = game.cash - 20 * 1000
          ELSE /\ game'.ev_battery = game.ev_battery
               /\ game'.cash = game.cash
               /\ game'.minutes = game.minutes]_vars

\* A station charge at moab, back from the swell without solar or wind
\* capacity, has just added its 40 points below the 100% bound.
C7_Witness ==
    /\ out.op = "charge"
    /\ out.arg = <<"station">>
    /\ out.res = "ok"
    /\ game.mode = "electric"
    /\ game.location = "moab"
    /\ game.solar_watts = 0
    /\ game.wind_watts = 0
    /\ game.ev_battery < 100 * 1000

\* ------------------------------------------------------------------- C8
\* C8: drive() with no route set, or with route_idx at or past the end of
\* the route, changes nothing: location, clock, ev_battery, fuel_gal, house
\* battery, water, energy, XP, route and route_idx stay as they were.
C8_DriveWithoutEdgeIsNoOp ==
    [][(out'.op = "drive"
        /\ (game.route = << >> \/ game.route_idx >= Len(game.route)))
       => /\ out'.res \in {"no_route", "route_complete"}
          /\ game'.location = game.location
          /\ game'.minutes = game.minutes
          /\ game'.ev_battery = game.ev_battery
          /\ game'.fuel_gal = game.fuel_gal
          /\ game'.battery = game.battery
          /\ game'.water = game.water
          /\ game'.energy = game.energy
          /\ game'.xp = game.xp
          /\ game'.level = game.level
          /\ game'.route = game.route
          /\ game'.route_idx = game.route_idx]_vars

\* A drive has just been refused on a route already driven to its end.
C8_Witness ==
    /\ out.op = "drive"
    /\ out.res = "route_complete"
    /\ game.route # << >>
    /\ game.route_idx = Len(game.route)
    /\ game.location = game.route[Len(game.route)].to

\* ------------------------------------------------------------------- C9
RouteHorizon == 12

\* Weather held constant: at every node the weather's speed factor is the
\* same at each tick of the horizon as at the departure time t.
WeatherHeldConstant(wld, t) ==
    \A n \in DOMAIN wld.nodes :
        With(weather_speed_mod(derive_weather(wld.nodes[n], t)), LAMBDA at_t :
          \A k \in 1..RouteHorizon :
            weather_speed_mod(derive_weather(wld.nodes[n], t + k * TURN_MINUTES)) = at_t)

SetMin(S) == CHOOSE v \in S : \A u \in S : v <= u

NodeIndex(wld, n) == CHOOSE i \in 1..Len(wld.order) : wld.order[i] = n

\* One round of edge relaxation over every edge of the world at once, with
\* each edge's ticks taken at time t: the new distances of the nodes from
\* the i-th on, in node order (D holds the old ones, in node order).
RECURSIVE RoundOfEdges(_, _, _, _)
RoundOfEdges(wld, t, D, i) ==
    IF i > Len(wld.order) THEN << >>
    ELSE << SetMin({D[i]} \cup UNION {
               { D[NodeIndex(wld, u)]
                   + edge_drive_turns(wld, u, wld.nodes[u].connections[k], t) :
                   k \in { k2 \in 1..Len(wld.nodes[u].connections) :
                             wld.nodes[u].connections[k2].to = wld.order[i] } } :
               u \in { u2 \in DOMAIN wld.nodes : D[NodeIndex(wld, u2)] < Inf } }) >>
         \o RoundOfEdges(wld, t, D, i + 1)

RECURSIVE Rounds(_, _, _, _)
Rounds(wld, t, D, n) ==
    IF n = 0 THEN D
    ELSE With(RoundOfEdges(wld, t, D, 1), LAMBDA D1 : Rounds(wld, t, D1, n - 1))

RECURSIVE StartDistances(_, _, _)
StartDistances(wld, src, i) ==
    IF i > Len(wld.order) THEN << >>
    ELSE << IF wld.order[i] = src THEN 0 ELSE Inf >> \o StartDistances(wld, src, i + 1)

\* The least total of ticks over all paths from src to dst (Inf when there
\* is none): no path needs more edges than there are nodes.
MinTicks(wld, src, dst, t) ==
    Rounds(wld, t, StartDistances(wld, src, 1), Len(wld.order))[NodeIndex(wld, dst)]

\* path is a chain of edges of the world leading from src to dst.
IsPath(wld, src, dst, path) ==
    /\ path = << >> => src = dst
    /\ path # << >> => path[1].frm = src /\ path[Len(path)].to = dst
    /\ \A i \in 1..Len(path) :
          /\ \E k \in 1..Len(wld.nodes[path[i].frm].connections) :
                wld.nodes[path[i].frm].connections[k] = path[i].conn
          /\ path[i].conn.to = path[i].to
          /\ i < Len(path) => path[i + 1].frm = path[i].to

RECURSIVE PathTicks(_, _, _, _)
PathTicks(wld, path, t, i) ==
    IF i > Len(path) THEN 0
    ELSE edge_drive_turns(wld, path[i].frm, path[i].conn, t) + PathTicks(wld, path, t, i + 1)

\* C9: with the weather held constant, dijkstra_route(world, src, dst, t)
\* returns (None, None) exactly when no path leads from src to dst, and
\* otherwise a path from src to dst whose ticks add up to the total it
\* returns, which is the least over all paths.
C9_DijkstraLeastTicks ==
    (probe.fn = "dijkstra_route" /\ WeatherHeldConstant(world, probe.minutes))
    => With(MinTicks(world, probe.src, probe.dst, probe.minutes), LAMBDA best :
         IF best = Inf THEN probe.r.status = "none"
         ELSE /\ probe.r.status = "ok"
              /\ IsPath(world, probe.src, probe.dst, probe.r.path)
              /\ PathTicks(world, probe.r.path, probe.minutes, 1) = best
              /\ probe.r.total = best)

\* A route of two legs has been returned although a direct road exists, the
\* weather constant over the horizon.
C9_Witness ==
    /\ probe.fn = "dijkstra_route"
    /\ probe.r.status = "ok"
    /\ Len(probe.r.path) = 2
    /\ \E k \in 1..Len(world.nodes[probe.src].connections) :
          world.nodes[probe.src].connections[k].to = probe.dst
    /\ WeatherHeldConstant(world, probe.minutes)

\* ------------------------------------------------- a session on the panel
\* Sessions that fit out the electrical system at the shop, switch devices
\* and let time pass tick by tick.
MaxPowerSteps == 4

CmdEquip ==
    Alive /\ \E it \in Typed.power_item :
        Dispatch("buy", <<it, 1>>, buy(make_cli_prompt(game), it, 1))

CmdSwitch ==
    Alive /\ \E n \in Typed.power_device, st \in BOOLEAN :
        Dispatch("toggle_device", <<n, st>>, toggle_device(make_cli_prompt(game), n, st))

\* One call of advance for one tick or for 26 ticks (the ticks a gallon of
\* diesel lasts) on the game as it stands; probe keeps the argument and the
\* clock before the call.
CallTicks ==
    /\ steps > 0
    /\ \E n \in {1, 26} :
         /\ game' = advance(game, n * TURN_MINUTES)
         /\ probe' = [fn |-> "advance", minutes |-> n * TURN_MINUTES,
                      clock |-> game.minutes]
    /\ steps' = steps - 1
    /\ UNCHANGED <<world, hashsalt, out>>

SpecPower == Start(MaxPowerSteps) /\ [][CmdEquip \/ CmdSwitch \/ CallTicks]_vars

\* ------------------------------------------------------ a parked vehicle
\* Nothing but time passes: advance is called tick after tick on the game
\* as constructed, for as long as the budget of ticks lasts.
MaxDecayTicks == 400

TickDecay ==
    /\ steps > 0
    /\ game' = advance(game, TURN_MINUTES)
    /\ steps' = steps - 1
    /\ UNCHANGED <<world, hashsalt, out, probe>>

\* The loop that calls advance keeps running while ticks remain.
SpecDecay == Start(MaxDecayTicks) /\ [][TickDecay]_vars /\ WF_vars(TickDecay)

\* ---------------------------------------------------- the season lookup
\* Days 0..MaxSeasonDay cover two turns of the 360-day cycle and a few days
\* of the third.
MaxSeasonDay == 725
MaxSeasonCalls == 1

\* One call of get_season(t) at the first or the last minute of a day; probe
\* keeps the argument, the season returned and the index at which the walk
\* over the table stopped (0 when it fell through to the fallback).
CallSeason ==
    /\ steps > 0
    /\ \E d \in 0..MaxSeasonDay, m \in {0, DAY_MINUTES - 1} :
         probe' = [fn |-> "get_season", minutes |-> d * DAY_MINUTES + m,
                   season |-> get_season(d * DAY_MINUTES + m).name,
                   walk |-> season_walk(SEASONS,
                              (d % sum_days(SEASONS, Len(SEASONS))) + 1, 1, 0)]
    /\ steps' = steps - 1
    /\ UNCHANGED <<game, world, hashsalt, out>>

SpecSeason == Start(MaxSeasonCalls) /\ [][CallSeason]_vars

\* ------------------------------------------------------------------ C10
\* C10: a call of derive_weather for the location and time of the call
\* before it returns the sample that call returned, within one run and
\* across a restart of the process, and no call changes the game.
C10_WeatherRepeatable ==
    [][/\ (/\ probe.fn = "derive_weather"
           /\ probe'.fn = "derive_weather"
           /\ probe'.node = probe.node
           /\ probe'.minutes = probe.minutes)
          => probe'.w = probe.w
       /\ probe' # probe => game' = game]_vars

\* ------------------------------------------------------------------ C11
\* Two calls of derive_weather in one process for the same node and two
\* clock values of the same in-game day.
SameDayCalls ==
    /\ probe.fn = "derive_weather"
    /\ probe'.fn = "derive_weather"
    /\ probe'.salt = probe.salt
    /\ probe'.node = probe.node
    /\ probe'.minutes \div DAY_MINUTES = probe.minutes \div DAY_MINUTES

\* C11 (as amended): two calls of derive_weather for the same node at clock
\* values of the same in-game day agree on wind, monsoon, flood_watch and
\* season, the fields drawn from the (node id, day) generator or looked up
\* by day; temp_f, uv, humidity and heat follow the time of day as well.
C11_DayKeyedFieldsAgree ==
    [][SameDayCalls =>
         /\ probe'.w.wind = probe.w.wind
         /\ probe'.w.monsoon = probe.w.monsoon
         /\ probe'.w.flood_watch = probe.w.flood_watch
         /\ probe'.w.season = probe.w.season]_vars

\* Both calls of the current process are made, the last one at 13:00, and
\* the 08:00 sample of the same node and day has the same wind and season
\* and another temperature, UV index and humidity.
C11_Witness ==
    /\ steps = 0
    /\ probe.fn = "derive_weather"
    /\ probe.salt = hashsalt
    /\ probe.minutes % DAY_MINUTES = 13 * 60
    /\ LET early == derive_weather(world.nodes[probe.node], probe.minutes - 5 * 60)
       IN /\ early.wind = probe.w.wind
          /\ early.season = probe.w.season
          /\ early.temp_f # probe.w.temp_f
          /\ early.uv # probe.w.uv
          /\ early.humidity # probe.w.humidity

\* C11 (as claimed): two calls of derive_weather for the same node at clock
\* values of the same in-game day return samples equal in every field.
C11_SameDaySameSample ==
    [][SameDayCalls => probe'.w = probe.w]_vars

\* ------------------------------------------------------------------ C12
\* C12: get_season(t) returns the season whose day range covers
\* d = (t div 1440) mod 360 + 1 in the default table (1-90 spring, 91-210
\* summer, 211-300 autumn, 301-360 winter); the walk stops inside the table
\* (the fallback is not reached) and the result repeats after 360 days.
C12_SeasonByDayOfCycle ==
    probe.fn = "get_season" =>
      LET d == ((probe.minutes \div DAY_MINUTES) % 360) + 1
      IN /\ probe.season = (IF d <= 90 THEN "spring" ELSE IF d <= 210 THEN "summer"
                            ELSE IF d <= 300 THEN "autumn" ELSE "winter")
         /\ probe.walk \in 1..4
         /\ get_season(probe.minutes + 360 * DAY_MINUTES).name = probe.season

\* The lookup on the last day of the second cycle, day 720 of the game:
\* winter, found at the last row of the table.
C12_Witness ==
    /\ probe.fn = "get_season"
    /\ probe.minutes \div DAY_MINUTES = 719
    /\ probe.season = "winter"
    /\ probe.walk = 4

\* ------------------------------------------------------------------ C13
\* A step that is one tick of advance.
OneTick ==
    /\ probe'.fn = "advance"
    /\ probe'.minutes = TURN_MINUTES
    /\ probe'.clock = game.minutes
    /\ steps' = steps - 1
    /\ out' = out

\* C13: a tick integrates into the house battery the net current of the
\* tick-start state (its clock, its switches, its diesel stock); the heater
\* burn comes after it (a heater that runs dry in this tick still loads this
\* tick, from the stock it had), and the EV trickle comes after the clock
\* has moved (it is taken at the tick-end clock).
C13_TickIntegratesStartCurrent ==
    [][OneTick =>
         /\ game'.battery =
              clamp(game.battery
                    + tick_delta_pct(game, compute_current(game).net_a), 0, 100 * Milli)
         /\ game'.minutes = game.minutes + TURN_MINUTES
         /\ (dev_active(game, "heater") /\ game.diesel_can_gal > 0)
              => /\ game'.diesel_can_gal < game.diesel_can_gal
                 /\ compute_current(game).load_a
                      >= game.base_draw_amps + game.devices["heater"].amps
         /\ game'.ev_battery =
              tick_ev([game EXCEPT !.minutes = @ + TURN_MINUTES]).ev_battery]_vars

\* A tick has run on a heater that was on with less diesel than one tick
\* burns: the heater is off and the can empty now, and the battery fell by
\* a current that counted the heater.
C13_Witness ==
    /\ probe.fn = "advance"
    /\ probe.minutes = TURN_MINUTES
    /\ game.minutes = probe.clock + TURN_MINUTES
    /\ game.devices["heater"].owned
    /\ ~game.devices["heater"].on
    /\ game.diesel_can_gal = 0
    /\ LET before == [game EXCEPT !.minutes = probe.clock,
                                  !.devices["heater"].on = TRUE,
                                  !.diesel_can_gal = 250]
       IN compute_current(before).net_a # compute_current(game).net_a

\* ------------------------------------------------------------------ C14
\* C14: with no solar and no wind capacity installed, every tick of advance
\* strictly lowers the house battery while it is above 0 and leaves it at 0
\* once it is 0; over repeated ticks the battery ends at 0 and stays there.
C14_BatteryDecaysToZero ==
    /\ [][(steps' = steps - 1 /\ game.solar_watts = 0 /\ game.wind_watts = 0)
            => IF game.battery > 0
               THEN game'.battery < game.battery /\ game'.battery >= 0
               ELSE game'.battery = 0]_vars
    /\ <>[](game.battery = 0)

\* The battery is empty on a vehicle without panels or turbine and ticks
\* still follow.
C14_Witness ==
    /\ game.battery = 0
    /\ game.solar_watts = 0
    /\ game.wind_watts = 0
    /\ steps > 0
    /\ steps < MaxDecayTicks

\* ------------------------------------------------------------------ C15
\* The sum of 'amps' over the devices of names that are owned and on.
RECURSIVE SwitchedOnAmps(_, _)
SwitchedOnAmps(devices, names) ==
    IF names = {} THEN 0
    ELSE LET n == CHOOSE x \in names : TRUE
             d == devices[n]
         IN (IF dget(d, "owned", FALSE) /\ dget(d, "on", FALSE)
             THEN dget(d, "amps", 0) ELSE 0)
            + SwitchedOnAmps(devices, names \ {n})

\* C15: the load _load_amps_now returns is base_draw_amps plus the amps of
\* every device of Game.devices that is owned and switched on when the call
\* returns.
C15_LoadSumsSwitchedOnDevices ==
    load_amps_now(game)
      = game.base_draw_amps
        + SwitchedOnAmps(load_amps_effect(game).devices, DOMAIN game.devices)

\* ------------------------------------------------------------------ C16
\* C16: after every tick of advance and after every command the diesel
\* heater is on only while diesel is left in the can, and the can is never
\* below empty.
C16_HeaterOnHasDiesel ==
    /\ game.diesel_can_gal >= 0
    /\ (dev_active(game, "heater") => game.diesel_can_gal > 0)

\* ------------------------------------------------------------------ C17
\* C17: a work() call that aborts, on an unknown work kind or on the failed
\* signal prerequisite of 'dev', leaves the whole game state as it was when
\* the call began: clock, cash, energy, water, batteries, XP and the per-day
\* work-hour tallies work_hours_day and work_hours_today.
C17_AbortedWorkChangesNothing ==
    [][(out'.op = "work" /\ out'.res \in {"unknown_kind", "no_signal"})
          => game' = make_cli_prompt(game)]_vars

\* ------------------------------------------------------------------ C18
\* A working day: WORK typed again and again, for the player's own job or as
\* a mechanic, for one to five hours a session.
MaxShiftSteps == 3

CmdShift ==
    Alive /\ \E k \in Typed.shift_kind, h \in Typed.shift_hours :
        Dispatch("work", <<k, h>>, work(make_cli_prompt(game), k, h))

SpecShift == Start(MaxShiftSteps) /\ [][CmdShift]_vars

\* The hours of the kind worked that work() finds tallied for today.
ShiftPrev(g, kind0) ==
    work_rollover(g).work_hours_today[IF kind0 \in {"", "job"} THEN job_kind(g.job)
                                      ELSE kind0]

\* What the same session pays from the same state with nothing tallied:
\* location, day, kind, variance, tip and perk multipliers all the same.
FreshPay(g, kind0, hours0) ==
    work([work_rollover(g) EXCEPT !.work_hours_today = [k \in Kinds |-> 0]],
         kind0, hours0).g.cash - g.cash

\* C18: the fatigue multiplier of a work() session is chosen from the hours
\* of that kind already worked that day when the session starts.  A session
\* that starts with four or more hours tallied pays strictly less than the
\* same session unfatigued; a session that starts below four hours pays all
\* of its hours at the unfatigued rate, those beyond the fourth included.
C18_FatigueBySessionStart ==
    [][(out'.op = "work" /\ out'.res = "ok")
          => LET g == make_cli_prompt(game)
                 paid == game'.cash - g.cash
             IN IF ShiftPrev(g, out'.arg[1]) >= 4 * Milli
                THEN paid < FreshPay(g, out'.arg[1], out'.arg[2])
                ELSE paid = FreshPay(g, out'.arg[1], out'.arg[2])]_vars

\* Five hours as a mechanic worked as four hours and then one: the fifth
\* hour began a session with four hours tallied.
C18_Witness ==
    /\ out.op = "work" /\ out.res = "ok" /\ out.arg = <<"mechanic", 1>>
    /\ game.work_hours_today["mechanic"] = 5 * Milli
    /\ game.minutes = 8 * 60 + 5 * 60

\* C18 as stated: however the hours are divided into sessions, a session
\* that takes the day's tally beyond four hours pays less than the same
\* hours unfatigued.
C18_HoursBeyondThresholdPaidLower ==
    [][(out'.op = "work" /\ out'.res = "ok")
          => LET g == make_cli_prompt(game)
             IN ShiftPrev(g, out'.arg[1]) + out'.arg[2] * Milli > 4 * Milli
                  => game'.cash - g.cash < FreshPay(g, out'.arg[1], out'.arg[2])]_vars

\* ------------------------------------------------------------------ C19
\* C19: a successful work() or hike() session of n ticks leaves the clock,
\* the house battery and the EV battery where advance(n * 15) from the same
\* state leaves them: the passive power trickle is applied once per tick.
C19_SessionTicksLikeAdvance ==
    [][(out'.op \in {"work", "hike"} /\ out'.res = "ok")
          => LET g == make_cli_prompt(game)
                 n == (game'.minutes - g.minutes) \div TURN_MINUTES
                 a == advance(g, n * TURN_MINUTES)
             IN /\ n >= 1
                /\ game'.minutes = a.minutes
                /\ game'.battery = a.battery
                /\ game'.ev_battery = a.ev_battery]_vars

C21_LevelFollowsXp ==
    /\ game.level = level_from_xp(game.xp)
    /\ [][/\ game'.level = level_from_xp(game'.xp)
          /\ game'.xp >= game.xp
          /\ game'.level >= game.level]_vars

\* A level gained in play.
C21_Witness ==
    /\ game.level = 2 /\ game.xp >= xp_needed_for_level(2)
    /\ out.op # "start"

\* ------------------------------------------------------------------ C22
\* Sessions around the companion: ADOPT PET at moab and away from it, drives
\* between moab and the swell, and time passing.
MaxCompanionSteps == 5

SpecCompanion ==
    Start(MaxCompanionSteps) /\ [][CmdAdoptPet \/ CmdCommute \/ CmdDrive \/ CallTicks]_vars

\* C22: the companion comes into being only through adopt_pet at a node with
\* the pet_adoption flag (typed by the player, or called once at start-up
\* for the truck camper); there is never more than one; once there it stays,
\* and adopt_pet with a companion present changes nothing; every tick of
\* advance lowers its energy by half a point, stopping at 0.
C22_CompanionAdoptedOnce ==
    /\ game.pet # << >> => (game.vehicle_type = "truck_camper" /\ node(game).pet_adoption)
    /\ [][LET command == probe' = probe
              g == make_cli_prompt(game)
          IN /\ Len(game'.pet) <= 1
             /\ (game.pet = << >> /\ game'.pet # << >>)
                  => (command /\ out'.op = "adopt_pet" /\ node(game).pet_adoption)
             /\ game.pet # << >> => game'.pet # << >>
             /\ (command /\ out'.op = "adopt_pet" /\ game.pet # << >>) => game' = g
             /\ (~command /\ game.pet # << >>)
                  => /\ game'.pet[1].energy =
                          Max(0, game.pet[1].energy
                                   - (probe'.minutes \div TURN_MINUTES) * 500)
                     /\ game.pet[1].energy > 0 => game'.pet[1].energy < game.pet[1].energy
             /\ game'.pet # << >>
                  => advance(game', TURN_MINUTES).pet[1].energy
                       = Max(0, game'.pet[1].energy - 500)]_vars

\* A companion adopted at moab, taken to the swell, where ADOPT PET was typed
\* again.
C22_Witness ==
    /\ game.vehicle_type # "truck_camper" /\ game.pet # << >>
    /\ game.location = "swell"
    /\ out.op = "adopt_pet" /\ out.res = "no_adoption"

\* ------------------------------------------------------------------ C23
\* World(nodes), called alone on a node file of three nodes.  The file gives
\* moab up to two connections and arches and swell up to one each; a
\* connection leads to one of the three nodes or to "ghost", which the file
\* has no node for, over a 10-mile highway or a 20-mile gravel road.  probe
\* keeps the file and the world built from it.
MaxWorldCalls == 1

CallWorld ==
    /\ steps > 0
    /\ LET Roads == { Conn(to, rd[1], rd[2], rd[3]) :
                        to \in {"moab", "arches", "swell", "ghost"},
                        rd \in { <<"highway", "flat", 10>>, <<"gravel", "steep", 20>> } }
           Short == { << >> } \cup { << c >> : c \in Roads }
           Long == Short \cup { << c, d >> : c \in Roads, d \in Roads }
       IN \E cm \in Long, ca \in Short, cs \in Short :
            LET nodes == [moab |-> RouteNode("moab", FALSE, cm),
                          arches |-> RouteNode("arches", TRUE, ca),
                          swell |-> RouteNode("swell", FALSE, cs)]
            IN probe' = [fn |-> "World", nodes |-> nodes,
                         w |-> World(<< "moab", "arches", "swell" >>, nodes)]
    /\ steps' = steps - 1
    /\ UNCHANGED <<game, world, hashsalt, out>>

SpecWorld == Start(MaxWorldCalls) /\ [][CallWorld]_vars

\* The connections from node a to node b in a node table.
EdgesTo(nodes, a, b) ==
    { k \in 1 .. Len(nodes[a].connections) : nodes[a].connections[k].to = b }

\* C23: in the world built from a node file every connection A->B to a node
\* of the world has a connection B->A; each node keeps the connections of
\* the file unaltered and in place, followed by the synthesized ones; a
\* synthesized B->A copies the road, grade and miles of a connection A->B of
\* the file, and there is one only where the file had no B->A, and only one.
C23_ConnectionsSymmetric ==
    probe.fn = "World" =>
      LET raw == probe.nodes
          built == probe.w.nodes
      IN /\ DOMAIN built = DOMAIN raw
         /\ \A a \in DOMAIN raw :
              LET old == raw[a].connections
                  new == built[a].connections
              IN /\ built[a] = [raw[a] EXCEPT !.connections = new]
                 /\ Len(new) >= Len(old)
                 /\ SubSeq(new, 1, Len(old)) = old
                 /\ \A k \in 1 .. Len(new) :
                      new[k].to \in DOMAIN raw => EdgesTo(built, new[k].to, a) # {}
                 /\ \A k \in Len(old) + 1 .. Len(new) :
                      /\ new[k].to \in DOMAIN raw
                      /\ EdgesTo(raw, a, new[k].to) = {}
                      /\ EdgesTo(built, a, new[k].to) = {k}
                      /\ \E j \in EdgesTo(raw, new[k].to, a) :
                           raw[new[k].to].connections[j] = [new[k] EXCEPT !.to = a]

\* A file with a road to a node it does not have, a one-way road that gets
\* its mirror, and a pair of roads that were already there in both
\* directions with different mileage.
C23_Witness ==
    /\ probe.fn = "World"
    /\ probe.nodes["moab"].connections
         = << Conn("ghost", "highway", "flat", 10), Conn("arches", "highway", "flat", 10) >>
    /\ probe.nodes["arches"].connections = << Conn("moab", "gravel", "steep", 20) >>
    /\ probe.nodes["swell"].connections = << Conn("moab", "gravel", "steep", 20) >>
    /\ probe.w.nodes["moab"].connections
         = << Conn("ghost", "highway", "flat", 10), Conn("arches", "highway", "flat", 10),
              Conn("swell", "gravel", "steep", 20) >>
    /\ probe.w.nodes["arches"].connections = << Conn("moab", "gravel", "steep", 20) >>

\* ------------------------------------------------------------------ C24
\* C24: whatever is bought, the upgrades stay within the maxima of the
\* vehicle: solar_watts <= solar_cap_watts, wind_watts <= wind_cap_watts,
\* water_cap_gallons <= max_water_cap and food_cap_rations <= max_food_cap.
C24_UpgradesWithinArchetype ==
    /\ game.solar_watts <= game.solar_cap_watts
    /\ game.wind_watts <= game.wind_cap_watts
    /\ game.water_cap_gallons <= game.max_water_cap
    /\ game.food_cap_rations <= game.max_food_cap

\* Three pantries bought after three turbines: both purchases asked for more
\* than the vehicle takes and stopped at its maximum.
C24_Witness ==
    /\ out.op = "buy" /\ out.arg = <<"pantry", 3>> /\ out.res = "ok"
    /\ game.food_cap_rations = game.max_food_cap
    /\ game.food_cap_rations < VEHICLES(game.vehicle_type).base_food_cap + 15 * Milli
    /\ game.wind_watts = game.wind_cap_watts

MaxRejectSteps == 4

CmdMistyped ==
    Alive /\ \E c \in Typed.mistyped :
        LET g == make_cli_prompt(game)
            op == c[1]
            arg == c[2]
        IN Dispatch(op, <<arg>>,
             CASE op = "route_to" -> route_to(g, arg)
               [] op = "camp" -> camp(g, arg)
               [] op = "toggle_device" -> toggle_device(g, arg, TRUE)
               [] op = "set_mode" -> set_mode(g, arg)
               [] op = "charge" -> charge(g, arg)
               [] op = "refuel" ->
                    refuel(g, IF arg = "5" THEN 5 * Milli ELSE 0, arg \in {"0", "5"})
               [] op = "buy" -> buy(g, arg, 1)
               [] op = "hike" -> hike(g, 5, FALSE))

SpecReject == Start(MaxRejectSteps) /\ [][CmdMistyped \/ CmdDrive]_vars

\* C26: a command turned down for what was typed, or for the place, the mode
\* or the hour it was typed at, leaves the game as it was and the clock
\* where it was: route_to to an unknown, the current or an unreachable
\* place (the route plotted before and its cursor stay), camp with an
\* unknown style, toggle_device on an unknown or unowned device, set_mode
\* with an unknown mode, charge with an unknown method, outside electric
\* mode or away from moab, refuel with gallons that are not positive or not
\* a number or outside fuel mode, buy of an unknown item or away from moab,
\* and hike outside 06:00-18:00.
C26_RejectedChangesNothing ==
    [][(\/ out'.op = "route_to"
             /\ out'.res \in {"unknown_destination", "already_here", "no_route"}
        \/ out'.op = "camp" /\ out'.res = "bad_style"
        \/ out'.op = "toggle_device" /\ out'.res \in {"unknown_device", "not_owned"}
        \/ out'.op = "set_mode" /\ out'.res = "bad_mode"
        \/ out'.op = "charge" /\ out'.res \in {"bad_method", "not_electric", "no_charger"}
        \/ out'.op = "refuel" /\ out'.res \in {"bad_gallons", "usage", "not_fuel"}
        \/ out'.op = "buy" /\ out'.res \in {"unknown_item", "not_in_moab"}
        \/ out'.op = "hike" /\ out'.res = "not_safe")
          => game' = make_cli_prompt(game)]_vars

\* ROUTE TO bryce, which no road reaches, typed at the swell with the route
\* that led there still in place.
C26_Witness ==
    /\ out.op = "route_to" /\ out.arg = <<"bryce">> /\ out.res = "no_route"
    /\ game.location = "swell"
    /\ game.route # << >> /\ game.route_idx = 1

\* ------------------------------------------------------------------ C27
\* C27: the drivetrain mode is always "electric" or "fuel"; a command typed
\* while the mode is "fuel" leaves ev_battery as it was, and a command typed
\* while the mode is "electric" leaves fuel_gal as it was.
C27_StoresUsedByMode ==
    /\ game.mode \in {"electric", "fuel"}
    /\ [][/\ game'.mode \in {"electric", "fuel"}
          /\ game.mode = "fuel" => game'.ev_battery = game.ev_battery
          /\ game.mode = "electric" => game'.fuel_gal = game.fuel_gal]_vars

\* A leg driven on fuel: the tank is below its starting 60% and the traction
\* battery is at the 80% it started with.
C27_Witness ==
    /\ game.mode = "fuel" /\ out.op = "drive" /\ out.res = "ok"
    /\ game.fuel_gal # NaN /\ game.fuel_gal < mul(600, game.fuel_tank_gal)
    /\ game.ev_battery = 80 * Milli

\* ------------------------------------------------------------------ C28
\* C28: every command the loop hands to Game returns with a reported result;
\* none ends in an exception, PET before a companion is adopted included.
C28_CommandsReturnNormally == out.res # "raise"

\* ------------------------------------------------------------------ C29
\* C29: a camp of a known style, at whatever time it starts, ends with the
\* clock at 06:00, later than it started and no more than 24 hours later.
C29_CampSleepsToSix ==
    [][out'.op = "camp" /\ out'.res = "ok"
          => /\ game'.minutes % DAY_MINUTES = 6 * 60
             /\ game'.minutes > game.minutes
             /\ game'.minutes - game.minutes <= DAY_MINUTES]_vars

\* ------------------------------------------------------------------ C30
\* Days of hiking and reading: HIKE with each length random.randint(1, 5)
\* can draw, with or without a view on the way, and READ, which takes half
\* an hour.
MaxTrailSteps == 4

CmdTrail ==
    Alive /\ \E h \in Typed.trail_hours, f \in BOOLEAN :
        Dispatch("hike", <<h, f>>, hike(make_cli_prompt(game), h, f))

SpecTrail == Start(MaxTrailSteps) /\ [][CmdTrail \/ CmdRead]_vars

\* C30: a hike that a player who is no trail guide sets out on starts at
\* 06:00 or later and before 18:00, and is back by 18:00 of the same day.
C30_HikeBackByDusk ==
    [][out'.op = "hike" /\ out'.res = "ok" /\ game.job # "trail_guide"
          => /\ 6 * 60 <= game.minutes % DAY_MINUTES
             /\ game.minutes % DAY_MINUTES < 18 * 60
             /\ game'.minutes <= (game.minutes \div DAY_MINUTES) * DAY_MINUTES + 18 * 60]_vars

\* ------------------------------------------------------------------ C31
\* World files of slow trails and highways, on which a trip runs into the
\* next day: trails from moab to arches (absent or 236 miles) and to swell
\* (120 or 180 miles) and between swell and arches (absent or 120 miles),
\* highways from arches to zion (27 or 320 miles) and from swell to zion
\* (absent or 27 miles).
PlanWorlds ==
    { World(<< "moab", "arches", "swell", "zion" >>,
            [moab |-> RouteNode("moab", FALSE,
                        RouteConns(<< Conn("arches", "trail", "flat", ma),
                                      Conn("swell", "trail", "flat", ms) >>)),
             arches |-> RouteNode("arches", TRUE,
                        RouteConns(<< Conn("zion", "highway", "flat", az) >>)),
             swell |-> RouteNode("swell", TRUE,
                        RouteConns(<< Conn("arches", "trail", "flat", sa),
                                      Conn("zion", "highway", "flat", sz) >>)),
             zion |-> RouteNode("zion", FALSE, << >>)]) :
        ma \in {0, 236}, ms \in {120, 180}, sa \in {0, 120}, az \in {27, 320},
        sz \in {0, 27} }

\* Sessions of planning and driving over these worlds: SLEEP (two hours) to
\* let the day go on, ROUTE TO a place, DRIVE.  probe keeps what the planner
\* returned to the last route_to that plotted a route, and the place and the
\* clock it was called at.
MaxPlanSteps == 5

CmdPlan ==
    Alive /\ \E d \in {"arches", "swell", "zion"} :
        LET g == make_cli_prompt(game)
            r == route_to(g, d)
        IN /\ game' = r.g
           /\ out' = [op |-> "route_to", arg |-> <<d>>, res |-> r.res]
           /\ steps' = steps - 1
           /\ probe' = IF r.res = "ok"
                       THEN [fn |-> "route_to", t0 |-> g.minutes, src |-> g.location,
                             dst |-> d,
                             r |-> dijkstra_route(world, g.location, d, g.minutes)]
                       ELSE probe
           /\ UNCHANGED <<world, hashsalt>>

SpecPlan ==
    /\ world \in PlanWorlds
    /\ hashsalt \in {0, MaxSalt}
    /\ \E config \in { c \in Configs : c.vehicle_key = "van" } :
          game = check_for_truck_camper(Game_init(world, config))
    /\ out = [op |-> "start", arg |-> << >>, res |-> "ok"]
    /\ steps = MaxPlanSteps
    /\ probe = NoProbe
    /\ [][CmdNap \/ CmdPlan \/ CmdDrive]_vars

\* The ticks of the first k edges of path, each edge's taken at the time the
\* edges before it end when the first is entered at t0.
RECURSIVE PlannedTicks(_, _, _)
PlannedTicks(path, t0, k) ==
    IF k = 0 THEN 0
    ELSE With(PlannedTicks(path, t0, k - 1), LAMBDA before :
           before + edge_drive_turns(world, path[k].frm, path[k].conn,
                                     t0 + before * TURN_MINUTES))

\* The game is on the plan probe holds: the route is the planner's path and
\* the clock is where the plan puts the arrival at the cursor's node.
OnPlan(g) ==
    /\ probe.fn = "route_to"
    /\ g.route = probe.r.path
    /\ g.minutes = probe.t0 + PlannedTicks(g.route, probe.t0, g.route_idx) * TURN_MINUTES

\* C31: a drive without detour that starts on the plan takes the ticks the
\* planner counted for its edge, at the planned arrival time at the edge's
\* start; so the drive that completes the route arrives at the destination
\* exactly the planner's total of ticks after route_to was called.
C31_DrivesFollowPlan ==
    [][(out'.op = "drive" /\ out'.res = "ok" /\ OnPlan(game))
          => /\ game'.minutes - game.minutes
                  = TURN_MINUTES * (PlannedTicks(game.route, probe.t0, game.route_idx + 1)
                                    - PlannedTicks(game.route, probe.t0, game.route_idx))
             /\ game'.route_idx = Len(game.route)
                  => /\ game'.location = probe.dst
                     /\ game'.minutes = probe.t0 + probe.r.total * TURN_MINUTES]_vars

\* A route driven to its end on the plan, its last edge entered on the day
\* after the planning and taking another number of ticks there than the
\* weather of the planning hour would give it.
C31_Witness ==
    /\ out.op = "drive" /\ out.res = "ok" /\ OnPlan(game)
    /\ Len(game.route) >= 2 /\ game.route_idx = Len(game.route)
    /\ game.location = probe.dst
    /\ LET k == game.route_idx
           e == game.route[k]
       IN edge_drive_turns(world, e.frm, e.conn, probe.t0)
            # edge_drive_turns(world, e.frm, e.conn,
                   probe.t0 + PlannedTicks(game.route, probe.t0, k - 1) * TURN_MINUTES)

\* ------------------------------------------------------------------ C32
\* The arrivals <<node, ticks>> of the paths of at most k more edges that
\* continue the arrivals in S, each edge's ticks taken at the arrival time
\* at its start node when the trip begins at t.
RECURSIVE Arrivals(_, _, _, _)
Arrivals(wld, t, S, k) ==
    IF k = 0 THEN S
    ELSE Arrivals(wld, t,
           S \cup UNION { { << wld.nodes[p[1]].connections[i].to,
                               p[2] + edge_drive_turns(wld, p[1],
                                                       wld.nodes[p[1]].connections[i],
                                                       t + p[2] * TURN_MINUTES) >> :
                             i \in 1..Len(wld.nodes[p[1]].connections) } : p \in S },
           k - 1)

\* The least time-dependent total over the paths from src to dst of no more
\* edges than the world has nodes.
LeastTicks(wld, src, dst, t) ==
    SetMin({ p[2] : p \in { q \in Arrivals(wld, t, { <<src, 0>> }, Len(wld.order)) :
                              q[1] = dst } })

\* C32: the total dijkstra_route returns for a route is the least total of
\* ticks over all paths from the source to the destination, every edge
\* counted with the weather at the time the path arrives at its start node.
C32_PlanIsLeast ==
    probe.fn = "route_to" => probe.r.total = LeastTicks(world, probe.src, probe.dst, probe.t0)

\* ------------------------------------------------------------------ C33
\* Working into the night and the next day: WORK for two or six hours, for
\* the player's own job or as a mechanic.  probe is the observer's ledger:
\* the day of the last session and, per kind, the hours of the sessions
\* that started on that day.
MaxDaySteps == 5

CmdLongShift ==
    Alive /\ \E k \in Typed.long_kind, h \in Typed.long_hours :
        LET g == make_cli_prompt(game)
            r == work(g, k, h)
            today == g.minutes \div DAY_MINUTES
            kind == IF k = "" THEN job_kind(g.job) ELSE k
            done == IF probe.fn = "work" /\ probe.day = today THEN probe.done
                    ELSE [x \in Kinds |-> 0]
        IN /\ game' = r.g
           /\ out' = [op |-> "work", arg |-> <<k, h>>, res |-> r.res]
           /\ steps' = steps - 1
           /\ probe' = IF r.res = "ok"
                       THEN [fn |-> "work", day |-> today,
                             done |-> [done EXCEPT ![kind] = @ + h * Milli]]
                       ELSE probe
           /\ UNCHANGED <<world, hashsalt>>

SpecDays == Start(MaxDaySteps) /\ [][CmdLongShift]_vars

\* The hours of kind0 the ledger holds for the day of g's clock.
DoneToday(g, kind0) ==
    IF probe.fn = "work" /\ probe.day = g.minutes \div DAY_MINUTES
    THEN probe.done[IF kind0 = "" THEN job_kind(g.job) ELSE kind0]
    ELSE 0

\* What the session pays from g when it finds prev hours of its kind tallied
\* for today.
TallyPay(g, kind0, hours0, prev) ==
    work([g EXCEPT !.work_hours_day = g.minutes \div DAY_MINUTES,
                   !.work_hours_today = [k \in Kinds |-> prev]],
         kind0, hours0).g.cash - g.cash

\* C33: a work() session is paid at the fatigue level of the hours of its
\* kind that the sessions started earlier on the same in-game day add up
\* to: unfatigued (1.0) below 4 hours, and so for the first session of its
\* kind on a new day whatever was worked before, hours of a session that ran
\* over midnight included; then at 0.85 below 6 hours, at 0.7 below 8 hours
\* and at 0.55 from 8 hours on, each level paying less than the one before.
C33_FatigueResetsAtMidnight ==
    [][(out'.op = "work" /\ out'.res = "ok")
          => LET g == make_cli_prompt(game)
                 k == out'.arg[1]
                 h == out'.arg[2]
                 done == DoneToday(g, k)
                 paid == game'.cash - g.cash
             IN /\ done < 4 * Milli => paid = TallyPay(g, k, h, 0)
                /\ 4 * Milli <= done /\ done < 6 * Milli
                     => paid = TallyPay(g, k, h, 4 * Milli)
                /\ 6 * Milli <= done /\ done < 8 * Milli
                     => paid = TallyPay(g, k, h, 6 * Milli)
                /\ 8 * Milli <= done => paid = TallyPay(g, k, h, 8 * Milli)
                /\ TallyPay(g, k, h, 0) > TallyPay(g, k, h, 4 * Milli)
                /\ TallyPay(g, k, h, 4 * Milli) > TallyPay(g, k, h, 6 * Milli)
                /\ TallyPay(g, k, h, 6 * Milli) > TallyPay(g, k, h, 8 * Milli)]_vars

\* The first session of the second day, started at 02:00 after eighteen
\* hours of the same kind in three sessions, the last of which ran over
\* midnight.
C33_Witness ==
    /\ out.op = "work" /\ out.res = "ok" /\ out.arg = <<"mechanic", 2>>
    /\ game.minutes = DAY_MINUTES + 4 * 60
    /\ probe.fn = "work" /\ probe.day = 1 /\ probe.done["mechanic"] = 2 * Milli
    /\ game.work_hours_today["mechanic"] = 2 * Milli

\* ------------------------------------------------------------------ C34
\* delta_pct = amp_hours / house_cap_ah * 100, amp-hours and percent both in
\* thousandths.
AhToPct(g, amp_hours) == (amp_hours * 100 * Milli) \div Max(Milli, g.house_cap_ah)

\* C34: the alternator credit of a drive in fuel mode, 2 A for the hours of
\* the edge, reaches the house battery as amp_hours / house_cap_ah * 100
\* percent: the battery on arrival is what the ticks of the drive make of
\* the battery so credited.
C34_AlternatorCreditByCapacity ==
    [][(out'.op = "drive" /\ out'.res \in {"ok", "ok_detour"} /\ game.mode = "fuel")
          => LET g == make_cli_prompt(game)
                 e == g.route[g.route_idx + 1]
                 turns == edge_drive_turns(world, e.frm, e.conn, g.minutes)
                 hours == (turns * TURN_MINUTES * Milli) \div 60
                 credited == [drive_drains(drive_energy(g, e.conn.miles, hours), hours)
                                EXCEPT !.battery = clamp(g.battery + AhToPct(g, 2 * hours),
                                                         0, 100 * Milli)]
             IN game'.battery = advance(credited, game'.minutes - g.minutes).battery]_vars

\* ------------------------------------------------------------------ C35
\* C35: the clock starts at 480 (08:00 of day 1), is a multiple of 15 in
\* every state, and no command moves it backwards.
C35_ClockInWholeTicks ==
    /\ game.minutes = 8 * 60
    /\ [][/\ game'.minutes % TURN_MINUTES = 0
          /\ game'.minutes >= game.minutes]_vars

\* The companion has been given water, which asks advance for 7 minutes: the
\* clock stands a whole tick later.
C35_Witness ==
    /\ out.op = "water_pet" /\ out.res = "ok"
    /\ game.minutes % TURN_MINUTES = 0
    /\ game.minutes > 8 * 60

\* ------------------------------------------------------------------ C36
\* C36: whenever a route is set the cursor is within 0 .. len(route); below
\* len(route) the player is at the start node of the edge at the cursor, and
\* at len(route) the player is at the end of the last edge, which is the
\* place the route was plotted to.
C36_CursorAtPosition ==
    game.route # << >>
    => /\ 0 <= game.route_idx /\ game.route_idx <= Len(game.route)
       /\ game.route_idx < Len(game.route)
            => game.location = game.route[game.route_idx + 1].frm
       /\ game.route_idx = Len(game.route)
            => game.location = game.route[Len(game.route)].to
       /\ probe.fn = "route_to" => game.route[Len(game.route)].to = probe.dst

\* A second route plotted from the place the first drive of an earlier route
\* led to, and its first edge driven.
C36_Witness ==
    /\ out.op = "drive" /\ out.res = "ok"
    /\ game.route # << >> /\ Len(game.route) >= 2 /\ game.route_idx = 1
    /\ game.route[1].frm # "moab"
    /\ game.location = game.route[2].frm

\* ------------------------------------------------------------------ C37
\* Sessions with a dish on the roof: BUY starlink, CAMP, SLEEP and WORK.
MaxSignalSteps == 3

CmdUplink ==
    Alive /\ \E it \in Typed.signal_item :
        Dispatch("buy", <<it, 1>>, buy(make_cli_prompt(game), it, 1))

SpecSignal == Start(MaxSignalSteps) /\ [][CmdUplink \/ CmdCamp \/ CmdNap \/ CmdWork]_vars

\* C37: a player who owns the starlink device is never refused a 'dev'
\* session for want of signal, whatever the time of day.
C37_StarlinkAlwaysHasSignal ==
    [][(/\ out'.op = "work"
        /\ out'.arg[1] = "" /\ game.job = "remote_dev"
        /\ game.devices["starlink"].owned)
          => out'.res # "no_signal"]_vars

\* ------------------------------------------------------------------ C38
\* C38: buy never takes cash without delivering something.  When a purchase
\* that goes through leaves every field but cash as it was (device or tent
\* already owned, upgrade at its ceiling, store full), cash is as it was
\* too; otherwise cash goes down by exactly price * qty, with the job's
\* shop_discount applied when the unit price is at least 150.
C38_BuyChargesOnlyForChange ==
    [][(out'.op = "buy" /\ out'.res = "ok") =>
         LET g0 == make_cli_prompt(game)
             qty == IF out'.arg[2] <= 0 THEN 1 ELSE out'.arg[2]
         IN IF [game' EXCEPT !.cash = g0.cash] = g0
            THEN game'.cash = g0.cash
            ELSE game'.cash =
                   flt_sub(g0.cash, buy_price(g0, Catalog[out'.arg[1]], qty))]_vars

\* ------------------------------------------------------------------ C39
\* route_to followed through the planner's loop, one pass of `while True`
\* per step.  While a call is in the loop probe holds its position: the
\* arguments, dist / prev, the visited set and how often each node has been
\* settled (counted up to 2, "more than once").  The world files explored
\* have a road from moab to itself, a one-way ring moab - arches - swell -
\* moab next to the mirrored roads, and a place (zion) that may be cut off.
SettleWorlds ==
    { World(<< "moab", "arches", "swell", "zion" >>,
            [moab |-> RouteNode("moab", FALSE,
                        RouteConns(<< Conn("moab", "highway", "flat", mm),
                                      Conn("arches", "highway", "flat", ma) >>)),
             arches |-> RouteNode("arches", TRUE,
                        RouteConns(<< Conn("arches", "highway", "flat", aa),
                                      Conn("swell", "highway", "flat", as) >>)),
             swell |-> RouteNode("swell", TRUE,
                        RouteConns(<< Conn("moab", "highway", "flat", sm),
                                      Conn("zion", "highway", "flat", sz) >>)),
             zion |-> RouteNode("zion", FALSE, << >>)]) :
        mm \in {0, 27}, ma \in {27}, aa \in {27}, as \in {27, 60},
        sm \in {0, 27}, sz \in {0, 60} }

MaxSettleSteps == 2

\* No call of the planner is under way: the main loop is reading a command.
AtPrompt == probe.fn # "settling"

\* ROUTE TO <place>: route_to up to the planner's loop.  A destination that
\* is unknown or is the place the player is at returns at once.
CmdRouteBegin ==
    /\ Alive /\ AtPrompt
    /\ \E d \in {"moab", "arches", "swell", "zion"} :
         LET g == make_cli_prompt(game)
             nid == find_node(world, d)
         IN IF nid = "" \/ nid = g.location
           THEN Dispatch("route_to", <<d>>, route_to(g, d))
           ELSE /\ game' = g
                /\ probe' = [fn |-> "settling", arg |-> d, src |-> g.location, dst |-> nid,
                             t0 |-> g.minutes,
                             st |-> [dist |-> [n \in DOMAIN world.nodes |->
                                                 IF n = g.location THEN 0 ELSE Inf],
                                     prev |-> [n \in DOMAIN world.nodes |-> <<>>],
                                     err |-> FALSE],
                             visited |-> {},
                             settled |-> [n \in DOMAIN world.nodes |-> 0]]
                /\ UNCHANGED <<world, hashsalt, out, steps>>

\* One pass of the loop: pick the nearest node not yet visited; leave the
\* loop when there is none or it is the destination, and finish route_to;
\* otherwise settle it and relax its connections.
SettleNode ==
    /\ probe.fn = "settling"
    /\ LET cur == pick_cur(world.order, probe.st.dist, probe.visited, 1, "", Inf)
           r == dijkstra_return(probe.st, probe.src, probe.dst)
       IN IF cur = "" \/ cur = probe.dst \/ probe.st.err
          THEN  /\ game' = IF r.status = "ok" /\ r.path # << >>
                           THEN [game EXCEPT !.route = r.path, !.route_idx = 0]
                           ELSE game
                /\ out' = [op |-> "route_to", arg |-> <<probe.arg>>,
                           res |-> IF r.status = "raise" THEN "raise"
                                   ELSE IF r.status = "none" \/ r.path = << >>
                                        THEN "no_route" ELSE "ok"]
                /\ steps' = steps - 1
                /\ probe' = [probe EXCEPT !.fn = "settled"]
                /\ UNCHANGED <<world, hashsalt>>
          ELSE /\ probe' = [probe EXCEPT
                             !.st = relax(world, cur, probe.t0, 1, probe.st),
                             !.visited = visit(probe.visited, cur),
                             !.settled[cur] = Min(@ + 1, 2)]
               /\ UNCHANGED <<world, hashsalt, game, out, steps>>

\* The commands typed between two plans.
ThenDrive == AtPrompt /\ CmdDrive
ThenWork == AtPrompt /\ CmdWork
ThenHike == AtPrompt /\ CmdHike
ThenCamp == AtPrompt /\ CmdCamp

\* The planner's loop waits for nothing, so a call that is in the loop takes
\* its next pass: weak fairness of SettleNode, written with the loop position
\* (probe.fn = "settling", the negation of AtPrompt) for ENABLED <<SettleNode>>_vars.
SpecSettle ==
    /\ world \in SettleWorlds
    /\ hashsalt \in {0, MaxSalt}
    /\ \E config \in { c \in Configs : c.vehicle_key = "van" } :
          game = check_for_truck_camper(Game_init(world, config))
    /\ out = [op |-> "start", arg |-> << >>, res |-> "ok"]
    /\ steps = MaxSettleSteps
    /\ probe = NoProbe
    /\ [][CmdRouteBegin \/ SettleNode \/ ThenDrive \/ ThenWork \/ ThenHike \/ ThenCamp]_vars
    /\ ([]<>AtPrompt \/ []<><<SettleNode>>_vars)

\* The most ticks a command can take: none for route_to, the slowest edge of
\* the world at the floor speed of 15 mph for drive, six hours for work,
\* five for hike, a day for camp.
TickBound(op) ==
    CASE op = "drive" ->
           SetMin({ b \in 1 .. 96 :
                      \A n \in DOMAIN world.nodes :
                        \A i \in 1 .. Len(world.nodes[n].connections) :
                          ceildiv(world.nodes[n].connections[i].miles * 4, 15 * Milli) <= b })
      [] op = "work" -> 6 * 4
      [] op = "hike" -> 5 * 4
      [] op = "camp" -> 24 * 4
      [] OTHER -> 0

\* C39: dijkstra_route terminates on every world graph, rings and roads from
\* a place to itself included, after settling each node at most once, and
\* route_to returns what the planner found; route_to, drive, work, hike and
\* camp each run to completion within a bounded number of ticks.
C39_PlannerTerminates ==
    /\ [][/\ probe'.fn \in {"settling", "settled"}
             => \A n \in DOMAIN probe'.settled : probe'.settled[n] <= 1
          /\ (probe.fn = "settling" /\ probe'.fn = "settled")
             => /\ game' = route_to(game, probe.arg).g
                /\ out'.res = route_to(game, probe.arg).res
          /\ (game'.minutes - game.minutes) % TURN_MINUTES = 0
          /\ (game'.minutes - game.minutes) \div TURN_MINUTES
               \in 0 .. (IF steps' < steps THEN TickBound(out'.op) ELSE 0)]_vars
    /\ (probe.fn = "settling") ~> (probe.fn = "settled")

\* A plan over a world with a road from moab to itself and the ring closed:
\* the planner settled three nodes, each once, and plotted three edges.
C39_Witness ==
    /\ probe.fn = "settled" /\ out.op = "route_to" /\ out.res = "ok"
    /\ \E i \in 1 .. Len(world.nodes["moab"].connections) :
          world.nodes["moab"].connections[i].to = "moab"
    /\ Cardinality(probe.visited) = 3
    /\ \A n \in probe.visited : probe.settled[n] = 1
    /\ Len(game.route) = 3 /\ game.route_idx = 0

====
